---- MODULE Spec2Model ----
(***************************************************************************)
(* State layer of the document analyzer front end:                         *)
(*   frontend/js/stores.js   SessionStore, DocumentStore, ChatStore        *)
(*   frontend/js/storage.js  persistence codec over localStorage           *)
(*   backend/server.js       POST /parse, the extraction collaborator      *)
(*                                                                         *)
(* JavaScript values are represented as follows.  null and undefined are   *)
(* the strings "null" and "undefined" (a missing JSON property reads as    *)
(* undefined).  A File is represented by its name.  A Map is the sequence  *)
(* of its [key, value] entries in insertion order.  Booleans returned by   *)
(* the store are the strings "true" and "false", so that every return      *)
(* value recorded in lastCall is a string.                                 *)
(*                                                                         *)
(* The page runs one handler at a time, to completion.  Every synchronous   *)
(* handler runs within one reading of the clock: the Date.now() calls of   *)
(* one handler return the same value.  The clock advances between          *)
(* handlers (Tick).  lastCall holds the result of the handler that just    *)
(* ran until the event loop is idle again (Idle).                          *)
(***************************************************************************)
EXTENDS Integers, Sequences, FiniteSets, Bags, TLC

VARIABLES
    now,            \* Date.now()
    documents,      \* DocumentStore.documents: Map docId -> document
    inflight,       \* bag of the parseDocument calls suspended at
                    \* `await fetch(.../parse)`
    lsDocuments,    \* localStorage['docsgpt-documents-v2']
    quotaExceeded,  \* localStorage.setItem throws (QuotaExceededError)
    lastCall,       \* the handler that just ran: its name, argument, result
    restoredIds,    \* history: ids whose object was built by restore() and
                    \* has not been given a file by reuploadDocument since
    sessions,       \* SessionStore.sessions: Map sessionId -> session
    activeSessionId,    \* SessionStore.activeSessionId
    lsSessions,     \* localStorage['docsgpt-sessions-v2']
    sessionMessages,    \* ChatStore.sessionMessages: Map sessionId -> messages[]
    lsMessages,     \* localStorage['docsgpt-messages-v2']
    addedMessages,  \* history: Map sessionId -> the messages addMessage built
                    \* for it, in call order
    returned,       \* the array a caller holds from its last getMessages call
    isSending,      \* ChatStore.isSending
    lsConfig,       \* localStorage['docsgpt-config']
    analysis,       \* bag of the processQuestion calls suspended at
                    \* `await analyzeWithIntent(...)`
    overwritten     \* history: the state a document had when the answer of
                    \* the collaborator was written onto it by the step
                    \* that just ran (null for any other step)

\* The fields of the SessionStore and its storage key.
sessionVars == <<sessions, activeSessionId, lsSessions>>

\* The fields of the ChatStore, its storage key, and what its callers hold.
chatVars == <<sessionMessages, lsMessages, addedMessages, returned, isSending>>

\* The configuration key of the storage.
configVars == <<lsConfig>>

\* What the page holds besides the stores.
pageVars == <<analysis, overwritten>>

vars == <<now, documents, inflight, lsDocuments, quotaExceeded, lastCall, restoredIds,
          sessionVars, chatVars, configVars, pageVars>>

----------------------------------------------------------------------------
(* Bounds *)

MaxClock == 2       \* Date.now() ranges over 1..MaxClock
MaxInflight == 2    \* parse requests awaiting the collaborator at once
MaxQuestions == 2   \* questions that pass the gate, over all sessions
MaxMessages == 2    \* messages held by the ChatStore, over all sessions

----------------------------------------------------------------------------
(* JavaScript values *)

null == "null"
undefined == "undefined"

\* JavaScript truthiness of a string-or-null value: !v is true for these.
Falsy(v) == v \in {null, undefined, ""}

\* Number.prototype.toString of Date.now()
DateToString(t) == ToString(t)

Clock == 1..MaxClock

\* The files the user can pick in the file input (File.name, .size, .type).
Files == {"report.pdf"}
FileSize(f) == 4
FileType(f) == "application/pdf"

\* Arguments the store operations are called with: every id the clock can
\* produce, and one id no store ever holds.
DocIds == {DateToString(t) : t \in Clock} \cup {"unknown"}

----------------------------------------------------------------------------
(* stores.js: DocumentState *)

UPLOADED == "UPLOADED"
PARSING == "PARSING"
PARSE_FAILED == "PARSE_FAILED"
PARSED == "PARSED"
REQUIRES_REUPLOAD == "REQUIRES_REUPLOAD"

DocumentState == {UPLOADED, PARSING, PARSE_FAILED, PARSED, REQUIRES_REUPLOAD}

----------------------------------------------------------------------------
(* JavaScript Map, as the sequence of its entries <<key, value>> *)

MapHas(m, k) == \E i \in DOMAIN m : m[i][1] = k

MapIndex(m, k) == CHOOSE i \in DOMAIN m : m[i][1] = k

MapGet(m, k) == m[MapIndex(m, k)][2]

\* Map.prototype.set: an existing key keeps its position.
MapSet(m, k, v) ==
    IF MapHas(m, k) THEN [m EXCEPT ![MapIndex(m, k)] = <<k, v>>]
    ELSE Append(m, <<k, v>>)

MapKeys(m) == {m[i][1] : i \in DOMAIN m}

----------------------------------------------------------------------------
(* storage.js *)

STORAGE_VERSION == 2

\* The string held under a localStorage key:
\*   kind "absent"   getItem returns null
\*   kind "garbage"  text that JSON.parse rejects
\*   kind "json"     JSON text of an object with the properties
\*                   version, documents, timestamp; isArray tells whether
\*                   the documents property is an array.
AbsentItem ==
    [kind |-> "absent", version |-> 0, isArray |-> FALSE, documents |-> <<>>, timestamp |-> 0]

GarbageItem ==
    [kind |-> "garbage", version |-> 0, isArray |-> FALSE, documents |-> <<>>, timestamp |-> 0]

\* JSON.stringify of the data object built by saveDocuments.
JSONStringify(data) ==
    [kind |-> "json", version |-> data.version, isArray |-> TRUE,
     documents |-> data.documents, timestamp |-> data.timestamp]

\* Faulty variant: the document object is written as it is.
CanonicalDoc_Whole(doc) == doc

\* Faulty variant: the list of properties leaves parseError out (it is
\* read back as null).
CanonicalDoc_NoError(doc) ==
    [docId |-> doc.docId,
     state |-> doc.state,
     metadata |-> doc.metadata,
     parsedArtifactId |-> doc.parsedArtifactId,
     parseError |-> null]

\* The record of one document that saveDocuments writes: an explicit list
\* of properties; file and requiresReupload are not among them.
CanonicalDoc(doc) ==
    [docId |-> doc.docId,
     state |-> doc.state,
     metadata |-> [name |-> doc.metadata.name,
                   size |-> doc.metadata.size,
                   type |-> doc.metadata.type,
                   uploadedAt |-> doc.metadata.uploadedAt],
     parsedArtifactId |-> doc.parsedArtifactId,
     parseError |-> doc.parseError]

\* Faulty variant: the write succeeds whatever the quota.
setItem_IgnoresQuota(prior, text) == text

\* localStorage.setItem: throws when the quota is exceeded, and the key
\* keeps its prior value.
setItem(prior, text) == IF quotaExceeded THEN prior ELSE text

\* saveDocuments(documents): the new value of the documents key.  The
\* exception of setItem is caught and logged.
saveDocuments(docs) ==
    LET canonicalDocs == [i \in DOMAIN docs |-> <<docs[i][1], CanonicalDoc(docs[i][2])>>]
        data == [version |-> STORAGE_VERSION, documents |-> canonicalDocs, timestamp |-> now]
    IN  setItem(lsDocuments, JSONStringify(data))

\* An element of a stored array of entries [id, value] that is not itself
\* an array (JSON null, a number, an object): it cannot be destructured
\* as [id, value], and new Map() does not take it for an entry.  It is
\* represented by a tuple of one element; every array entry has two.
NotAnEntry == <<"null">>

IsArrayEntry(e) == Len(e) = 2

\* A metadata property that is missing from a stored record.
MissingMetadata ==
    [name |-> undefined, size |-> 0, type |-> undefined, uploadedAt |-> 0]

\* loadDocuments: the test that rejects an entry [id, doc].
InvalidDocEntry(e) ==
    \/ Falsy(e[1])
    \/ Falsy(e[2].docId)
    \/ Falsy(e[2].state)
    \/ e[2].metadata = MissingMetadata

\* Faulty variant: loadDocuments trusts a record that says PARSED.
DowngradeParsedWithoutArtifact_Trusting(doc) == doc

\* loadDocuments: a document that claims PARSED without an artifact is
\* downgraded to UPLOADED.
DowngradeParsedWithoutArtifact(doc) ==
    IF doc.state = PARSED /\ Falsy(doc.parsedArtifactId)
    THEN [doc EXCEPT !.state = UPLOADED, !.parsedArtifactId = null]
    ELSE doc

\* Faulty variant: loadDocuments trusts a record that says PARSING.
DowngradeParsing_Trusting(doc) == doc

\* loadDocuments: a document found in PARSING failed.
DowngradeParsing(doc) ==
    IF doc.state = PARSING
    THEN [doc EXCEPT !.state = PARSE_FAILED,
                     !.parseError = "Parsing interrupted by page reload"]
    ELSE doc

\* loadDocuments: the map over data.documents, then filter(Boolean).
ValidDocs(entries) ==
    LET kept == SelectSeq(entries, LAMBDA e : ~InvalidDocEntry(e))
    IN  [i \in DOMAIN kept |->
            <<kept[i][1], DowngradeParsing(DowngradeParsedWithoutArtifact(kept[i][2]))>>]

\* loadDocuments: does it return null?
LoadDocumentsIsNull(item) ==
    \/ item.kind = "absent"                 \* if (!saved) return null
    \/ item.kind = "garbage"                \* JSON.parse throws, caught
    \/ item.version < STORAGE_VERSION       \* !data.version || data.version < 2
    \/ ~item.isArray                        \* !Array.isArray(data.documents)
    \/ \E i \in DOMAIN item.documents :     \* ([id, doc]) => ... throws, caught
            ~IsArrayEntry(item.documents[i])

\* loadDocuments: the documents of the value it returns.
loadDocuments(item) ==
    IF LoadDocumentsIsNull(item) THEN <<>> ELSE ValidDocs(item.documents)

\* Faulty variant: text that is not JSON is removed as well.
AfterLoadDocuments_ClearsGarbage(item) ==
    IF item.kind = "garbage" \/ (item.kind = "json" /\ item.version < STORAGE_VERSION)
    THEN AbsentItem ELSE item

\* loadDocuments: an outdated version makes it call clearDocuments
\* (localStorage.removeItem); reading changes the key in no other case.
AfterLoadDocuments(item) ==
    IF item.kind = "json" /\ item.version < STORAGE_VERSION THEN AbsentItem ELSE item

----------------------------------------------------------------------------
(* storage.js: the sessions key *)

\* The string held under the sessions key; the kinds are those of the
\* documents key.  isArray tells whether the sessions property is an array.
AbsentSessionsItem ==
    [kind |-> "absent", version |-> 0, isArray |-> FALSE, sessions |-> <<>>,
     activeSessionId |-> undefined, timestamp |-> 0]

\* The record of one session that saveSessions writes: an explicit list of
\* properties; activeDocumentId is not among them.
CanonicalSession(session) ==
    [sessionId |-> session.sessionId,
     name |-> session.name,
     state |-> session.state,
     activeDocumentIds |-> session.activeDocumentIds,
     createdAt |-> session.createdAt]

\* saveSessions(sessions, activeSessionId): the new value of the sessions
\* key.  The exception of setItem is caught and logged.
saveSessions(sess, activeId) ==
    LET canonicalSessions == [i \in DOMAIN sess |-> <<sess[i][1], CanonicalSession(sess[i][2])>>]
    IN  setItem(lsSessions,
                [kind |-> "json", version |-> STORAGE_VERSION, isArray |-> TRUE,
                 sessions |-> canonicalSessions, activeSessionId |-> activeId,
                 timestamp |-> now])

\* loadSessions: the test of the filter that rejects an entry [id, session].
\* (Array.isArray(session.activeDocumentIds) holds of every record here.)
InvalidSessionEntry(e) ==
    \/ Falsy(e[1])
    \/ Falsy(e[2].sessionId)
    \/ Falsy(e[2].name)
    \/ Falsy(e[2].state)

\* loadSessions: does it return null?
LoadSessionsIsNull(item) ==
    \/ item.kind = "absent"
    \/ item.kind = "garbage"
    \/ item.version < STORAGE_VERSION
    \/ ~item.isArray
    \/ \E i \in DOMAIN item.sessions :      \* ([id, session]) => ... throws, caught
            ~IsArrayEntry(item.sessions[i])

\* loadSessions: the sessions of the value it returns.
loadSessions(item) == SelectSeq(item.sessions, LAMBDA e : ~InvalidSessionEntry(e))

\* loadSessions: an outdated version makes it call clearSessions.
AfterLoadSessions(item) ==
    IF item.kind = "json" /\ item.version < STORAGE_VERSION THEN AbsentSessionsItem ELSE item

----------------------------------------------------------------------------
(* storage.js: the messages key *)

\* The string held under the messages key.  isArray tells whether the
\* sessionMessages property is an array.
AbsentMessagesItem ==
    [kind |-> "absent", version |-> 0, isArray |-> FALSE, sessionMessages |-> <<>>,
     timestamp |-> 0]

\* JSON.stringify of one message object: its own properties.
StringifyMessage(message) ==
    [id |-> message.id,
     role |-> message.role,
     content |-> message.content,
     evidence |-> message.evidence,
     createdAt |-> message.createdAt]

\* Faulty variant: the snapshot carries the send-in-progress flag.
saveMessages_WithFlag(data) ==
    setItem(lsMessages,
            [kind |-> "json", version |-> STORAGE_VERSION, isArray |-> TRUE,
             sessionMessages |-> data, timestamp |-> now, isSending |-> isSending])

\* saveMessages(sessionMessages): the new value of the messages key, for
\* the array of entries [sessionId, messages[]].
saveMessages(data) ==
    LET text == [i \in DOMAIN data |->
                    <<data[i][1],
                      [j \in DOMAIN data[i][2] |-> StringifyMessage(data[i][2][j])]>>]
    IN  setItem(lsMessages,
                [kind |-> "json", version |-> STORAGE_VERSION, isArray |-> TRUE,
                 sessionMessages |-> text, timestamp |-> now])

\* Faulty variant: the version test rejects the current version as well.
LoadMessagesIsNull_RejectsCurrent(item) ==
    \/ item.kind = "absent"
    \/ item.kind = "garbage"
    \/ item.version <= STORAGE_VERSION
    \/ ~item.isArray

\* loadMessages: does it return null?
LoadMessagesIsNull(item) ==
    \/ item.kind = "absent"
    \/ item.kind = "garbage"
    \/ item.version < STORAGE_VERSION
    \/ ~item.isArray

\* loadMessages: an outdated version makes it call clearMessages.
AfterLoadMessages(item) ==
    IF item.kind = "json" /\ item.version < STORAGE_VERSION THEN AbsentMessagesItem ELSE item

----------------------------------------------------------------------------
(* backend/server.js: POST /parse, seen from the fetch in parseDocument *)

\* What the awaited fetch can deliver:
\*   ok         res.json({success, documentId, ...}): the documentId of the
\*              request is echoed back
\*   error      a 4xx/5xx response whose JSON body has an error property
\*   errorBare  a 4xx/5xx response whose body is not JSON
\*   network    fetch rejects
\* The three failures run the same catch block and differ in the message
\* it stores; the responses drawn here are a success and an error response.
ParseOutcomes == {"ok", "error"}

\* All four.
ParseResponses == {"ok", "error", "errorBare", "network"}

\* error.message in the catch block of parseDocument.
\* new Error(errorData.error || 'Parse failed'), or fetch's TypeError.
ErrorMessage(outcome) ==
    CASE outcome = "error" -> "Document parsing failed"
      [] outcome = "errorBare" -> "Parse failed"
      [] OTHER -> "Failed to fetch"

----------------------------------------------------------------------------
(* stores.js: DocumentStore *)

\* The result of a handler, as recorded for the properties below.
\*   op     the operation
\*   id     its docId argument (the new id for addDocument)
\*   ret    what it returned or resolved to; "pending" while it awaits
\*   fetch  whether the call submitted a request to the collaborator
Call(op, id, ret, fetch) == [op |-> op, id |-> id, ret |-> ret, fetch |-> fetch]

NoCall == Call("idle", null, undefined, FALSE)

\* A parseDocument call awaiting the collaborator.
\*   docId       the key of its document in the map
\*   documentId  the documentId field of the request (doc.docId)
\*   live        its doc object is still the one the map holds.  A document
\*               object replaced in the map is no longer reachable from the
\*               store: the call writes to an object nobody reads.
\*   superseded  (history) the document was re-uploaded or replaced after
\*               the request was sent
Request(docId, documentId) ==
    [docId |-> docId, documentId |-> documentId, live |-> TRUE, superseded |-> FALSE]

OrphanRequest(ids, req) ==
    IF req.docId \in ids THEN [req EXCEPT !.live = FALSE, !.superseded = TRUE] ELSE req

Orphan(reqs, ids) == LET F(req) == OrphanRequest(ids, req) IN BagOfAll(F, reqs)

SupersedeRequest(id, req) ==
    IF req.docId = id THEN [req EXCEPT !.superseded = TRUE] ELSE req

Supersede(reqs, id) == LET F(req) == SupersedeRequest(id, req) IN BagOfAll(F, reqs)

\* The array getMessages returned, as its caller holds it: for each element,
\* the position in the session's log of the message object it refers to
\* (the spread copies references), or 0 for an object the caller put there.
\* live: the store still holds those message objects.
Returned(sessionId, refs) == [sessionId |-> sessionId, refs |-> refs, live |-> TRUE]

\* The string held under the configuration key: absent, or the JSON text
\* of a configuration object.
AbsentConfigItem == [kind |-> "absent", config |-> null]

\* No array is held.
NoArray == [sessionId |-> null, refs |-> <<>>, live |-> FALSE]

\* The constructors of the three stores, with nothing in localStorage.
Init ==
    /\ now = 1
    /\ documents = <<>>
    /\ inflight = EmptyBag
    /\ lsDocuments = AbsentItem
    /\ quotaExceeded = FALSE
    /\ lastCall = NoCall
    /\ restoredIds = {}
    /\ sessions = <<>>
    /\ activeSessionId = null
    /\ lsSessions = AbsentSessionsItem
    /\ sessionMessages = <<>>
    /\ lsMessages = AbsentMessagesItem
    /\ addedMessages = <<>>
    /\ returned = NoArray
    /\ isSending = FALSE
    /\ lsConfig = AbsentConfigItem
    /\ analysis = EmptyBag
    /\ overwritten = null

\* The event loop is idle: no handler is running.
IsIdle == lastCall = NoCall

\* The handler that ran has returned to the event loop.
Idle ==
    /\ ~IsIdle
    /\ UNCHANGED <<sessionVars, chatVars, configVars, analysis>>
    /\ lastCall' = NoCall
    /\ overwritten' = null
    /\ UNCHANGED <<now, documents, inflight, lsDocuments, quotaExceeded, restoredIds>>

\* Time passes between two handlers.
Tick ==
    /\ IsIdle
    /\ UNCHANGED <<sessionVars, chatVars, configVars, pageVars>>
    /\ now < MaxClock
    /\ now' = now + 1
    /\ UNCHANGED <<documents, inflight, lsDocuments, quotaExceeded, lastCall, restoredIds>>

\* The document object that addDocument builds.
NewDocument(docId, file) ==
    [docId |-> docId,
     state |-> UPLOADED,
     metadata |-> [name |-> file, size |-> FileSize(file), type |-> FileType(file),
                   uploadedAt |-> now],
     file |-> file,
     parsedArtifactId |-> null,
     parseError |-> null,
     requiresReupload |-> FALSE]

addDocument(file) ==
    LET docId == DateToString(now)
    IN  /\ IsIdle
        /\ UNCHANGED <<sessionVars, chatVars, configVars, pageVars>>
        /\ documents' = MapSet(documents, docId, NewDocument(docId, file))
        /\ lsDocuments' = saveDocuments(documents')
        /\ inflight' = Orphan(inflight, {docId})
        /\ restoredIds' = restoredIds \ {docId}
        /\ lastCall' = Call("addDocument", docId, docId, FALSE)
        /\ UNCHANGED <<now, quotaExceeded>>

\* reuploadDocument: the assignments to the document.
Reuploaded(doc, file) ==
    [doc EXCEPT !.file = file, !.state = UPLOADED, !.parseError = null,
                !.requiresReupload = FALSE]

reuploadDocument(docId, file) ==
    /\ IsIdle
    /\ UNCHANGED <<sessionVars, chatVars, configVars, pageVars>>
    /\ IF ~MapHas(documents, docId)
       THEN /\ lastCall' = Call("reuploadDocument", docId, "false", FALSE)
            /\ UNCHANGED <<now, documents, inflight, lsDocuments, quotaExceeded, restoredIds>>
       ELSE /\ documents' = MapSet(documents, docId, Reuploaded(MapGet(documents, docId), file))
            /\ lsDocuments' = saveDocuments(documents')
            /\ inflight' = Supersede(inflight, docId)
            /\ restoredIds' = restoredIds \ {docId}
            /\ lastCall' = Call("reuploadDocument", docId, "true", FALSE)
            /\ UNCHANGED <<now, quotaExceeded>>

\* Faulty variant: the gate looks at the artifact id alone.
isQueryable_ArtifactOnly(docs, docId) ==
    /\ MapHas(docs, docId)
    /\ MapGet(docs, docId).parsedArtifactId # null

\* isQueryable(docId), on the map docs.
\* doc?.state === PARSED && doc.parsedArtifactId !== null
isQueryable(docs, docId) ==
    /\ MapHas(docs, docId)
    /\ MapGet(docs, docId).state = PARSED
    /\ MapGet(docs, docId).parsedArtifactId # null

\* A call of isQueryable.
isQueryableCall(docId) ==
    /\ IsIdle
    /\ UNCHANGED <<sessionVars, chatVars, configVars, pageVars>>
    /\ lastCall' = Call("isQueryable", docId,
                        IF isQueryable(documents, docId) THEN "true" ELSE "false", FALSE)
    /\ UNCHANGED <<now, documents, inflight, lsDocuments, quotaExceeded, restoredIds>>

\* Faulty variant: the guard refuses only a document that is being parsed.
ParseRefused_OnlyWhileParsing(doc) == doc.state = PARSING

\* Faulty variant: the guard is missing.
ParseRefused_Never(doc) == FALSE

\* Faulty variant: the guard refuses only a document that is parsed.
ParseRefused_OnlyWhenParsed(doc) == doc.state = PARSED

\* parseDocument: the guard that refuses a document not waiting to be parsed.
\* if (doc.state !== DocumentState.UPLOADED) return false
ParseRefused(doc) == doc.state # UPLOADED

\* Faulty variant: a missing file is reported as a parse failure.
ParseWithoutFile_AsFailure(doc) == [doc EXCEPT !.state = PARSE_FAILED]

\* parseDocument: the assignment of the branch taken without a file.
ParseWithoutFile(doc) == [doc EXCEPT !.state = REQUIRES_REUPLOAD]

\* parseDocument: the assignments before the fetch.
ParseStarted(doc) == [doc EXCEPT !.state = PARSING, !.parseError = null]

\* parseDocument, up to its first await.
parseDocument(docId) ==
    /\ IsIdle
    /\ UNCHANGED <<sessionVars, chatVars, configVars, pageVars>>
    /\ IF ~MapHas(documents, docId)
       THEN /\ lastCall' = Call("parseDocument", docId, "false", FALSE)
            /\ UNCHANGED <<now, documents, inflight, lsDocuments, quotaExceeded, restoredIds>>
       ELSE LET doc == MapGet(documents, docId) IN
            IF Falsy(doc.file)
            THEN /\ documents' = MapSet(documents, docId, ParseWithoutFile(doc))
                 /\ lsDocuments' = saveDocuments(documents')
                 /\ lastCall' = Call("parseDocument", docId, "false", FALSE)
                 /\ UNCHANGED <<now, inflight, quotaExceeded, restoredIds>>
            ELSE IF ParseRefused(doc)
            THEN /\ lastCall' = Call("parseDocument", docId, "false", FALSE)
                 /\ UNCHANGED <<now, documents, inflight, lsDocuments, quotaExceeded,
                                restoredIds>>
            ELSE /\ BagCardinality(inflight) < MaxInflight
                 /\ documents' = MapSet(documents, docId, ParseStarted(doc))
                 /\ lsDocuments' = saveDocuments(documents')
                 /\ inflight' = inflight (+) SetToBag({Request(docId, doc.docId)})
                 /\ lastCall' = Call("parseDocument", docId, "pending", TRUE)
                 /\ UNCHANGED <<now, quotaExceeded, restoredIds>>

\* Faulty variant: an answer that arrives when the document is no longer
\* PARSING is dropped.
ParseSucceeded_OnlyWhileParsing(doc, documentId) ==
    IF doc.state = PARSING
    THEN [doc EXCEPT !.parsedArtifactId = documentId, !.state = PARSED]
    ELSE doc

\* Faulty variant: the success branch marks the document PARSED and forgets the
\* artifact id.
ParseSucceeded_NoArtifact(doc, documentId) == [doc EXCEPT !.state = PARSED]

\* parseDocument after the await: the assignments of the try block on a
\* success response.  server.js answers with the documentId of the request.
ParseSucceeded(doc, documentId) ==
    [doc EXCEPT !.parsedArtifactId = documentId, !.state = PARSED]

\* Faulty variant: the catch block forgets the message.
ParseFailed_NoMessage(doc, message) == [doc EXCEPT !.state = PARSE_FAILED]

\* parseDocument after the await: the assignments of the catch block.
ParseFailed(doc, message) ==
    [doc EXCEPT !.state = PARSE_FAILED, !.parseError = message]

\* parseDocument, from the collaborator's answer to its return.
parseSettle(req, outcome) ==
    LET settled(doc) == IF outcome = "ok" THEN ParseSucceeded(doc, req.documentId)
                        ELSE ParseFailed(doc, ErrorMessage(outcome))
    IN  /\ IsIdle
        /\ UNCHANGED <<sessionVars, chatVars, configVars, analysis>>
        /\ BagIn(req, inflight)
        /\ overwritten' = IF req.live THEN MapGet(documents, req.docId).state ELSE null
        /\ documents' = IF req.live
                        THEN MapSet(documents, req.docId, settled(MapGet(documents, req.docId)))
                        ELSE documents
        /\ lsDocuments' = saveDocuments(documents')
        /\ inflight' = inflight (-) SetToBag({req})
        /\ lastCall' = Call("parseSettle", req.docId,
                            IF outcome = "ok" THEN "true" ELSE "false", FALSE)
        /\ UNCHANGED <<now, quotaExceeded, restoredIds>>

\* Faulty variant: restore takes the stored name for the file.
RestoredDocument_WithFile(docData) ==
    [docId |-> docData.docId,
     state |-> docData.state,
     metadata |-> docData.metadata,
     file |-> docData.metadata.name,
     parsedArtifactId |-> docData.parsedArtifactId,
     parseError |-> docData.parseError,
     requiresReupload |-> FALSE]

\* restore: the document object built from a loaded record.
RestoredDocument(docData) ==
    [docId |-> docData.docId,
     state |-> docData.state,
     metadata |-> docData.metadata,
     file |-> null,
     parsedArtifactId |-> docData.parsedArtifactId,
     parseError |-> docData.parseError,
     requiresReupload |-> FALSE]

\* Faulty variant: a PARSED document stays PARSED.
DowngradeParsedWithoutFile_Never(doc) == doc

\* restore: a PARSED document without its file requires a re-upload.
DowngradeParsedWithoutFile(doc) ==
    IF doc.state = PARSED /\ Falsy(doc.file)
    THEN [doc EXCEPT !.state = REQUIRES_REUPLOAD]
    ELSE doc

\* restore: a document still PARSING requires a re-upload.
DowngradeParsingOnRestore(doc) ==
    IF doc.state = PARSING THEN [doc EXCEPT !.state = REQUIRES_REUPLOAD] ELSE doc

RECURSIVE RestoreInto(_, _)
\* restore: saved.documents.forEach(... this.documents.set(id, document))
RestoreInto(docs, saved) ==
    IF saved = <<>> THEN docs
    ELSE RestoreInto(
            MapSet(docs, Head(saved)[1],
                   DowngradeParsingOnRestore(
                       DowngradeParsedWithoutFile(RestoredDocument(Head(saved)[2])))),
            Tail(saved))

\* DocumentStore.restore() called on the store as it is.
restore ==
    LET saved == loadDocuments(lsDocuments)
        ids == {saved[i][1] : i \in DOMAIN saved}
    IN  /\ IsIdle
        /\ UNCHANGED <<sessionVars, chatVars, configVars, pageVars>>
        /\ documents' = RestoreInto(documents, saved)
        /\ lsDocuments' = AfterLoadDocuments(lsDocuments)
        /\ inflight' = Orphan(inflight, ids)
        /\ restoredIds' = restoredIds \cup ids
        /\ lastCall' = Call("restore", null, undefined, FALSE)
        /\ UNCHANGED <<now, quotaExceeded>>

----------------------------------------------------------------------------
(* stores.js: SessionStore *)

CREATED == "CREATED"
ACTIVE == "ACTIVE"
ARCHIVED == "ARCHIVED"

SessionState == {CREATED, ACTIVE, ARCHIVED}

\* Arguments the session operations are called with: every id the clock
\* can produce, and one id no store ever holds.
SessionIds == {DateToString(t) : t \in Clock} \cup {"unknown"}

\* The document ids the session operations are called with.
SessionDocIds == {"1", "2"}

\* createSession is called without a name: the default parameter.
DefaultName == "Untitled Session"

\* What the prompt of renameSession returns, trimmed: a name, or nothing.
PromptAnswers == {"Q3 review", ""}

\* Array.prototype.includes on a list of ids.
Includes(ids, id) == \E i \in DOMAIN ids : ids[i] = id

\* The session object that createSession builds.
NewSession(sessionId, name) ==
    [sessionId |-> sessionId,
     name |-> name,
     state |-> ACTIVE,
     activeDocumentIds |-> <<>>,
     activeDocumentId |-> null,
     createdAt |-> now]

createSession(name) ==
    LET sessionId == DateToString(now)
    IN  /\ IsIdle
        /\ sessions' = MapSet(sessions, sessionId, NewSession(sessionId, name))
        /\ activeSessionId' = sessionId
        /\ lsSessions' = saveSessions(sessions', activeSessionId')
        /\ lastCall' = Call("createSession", sessionId, sessionId, FALSE)
        /\ UNCHANGED <<now, documents, inflight, lsDocuments, quotaExceeded, restoredIds,
                       chatVars, configVars, pageVars>>

\* Faulty variant: the pointer is switched without looking the id up.
setActiveSession_Unchecked(sessionId) ==
    /\ IsIdle
    /\ activeSessionId' = sessionId
    /\ lsSessions' = saveSessions(sessions, activeSessionId')
    /\ lastCall' = Call("setActiveSession", sessionId, undefined, FALSE)
    /\ UNCHANGED <<now, documents, inflight, lsDocuments, quotaExceeded, restoredIds,
                   sessions, chatVars, configVars, pageVars>>

\* setActiveSession(sessionId)
setActiveSession(sessionId) ==
    /\ IsIdle
    /\ IF MapHas(sessions, sessionId)
       THEN /\ activeSessionId' = sessionId
            /\ lsSessions' = saveSessions(sessions, activeSessionId')
       ELSE UNCHANGED <<activeSessionId, lsSessions>>
    /\ lastCall' = Call("setActiveSession", sessionId, undefined, FALSE)
    /\ UNCHANGED <<now, documents, inflight, lsDocuments, quotaExceeded, restoredIds,
                   sessions, chatVars, configVars, pageVars>>

\* Faulty variant: the membership test of addDocumentToSession is missing.
AlreadyInSession_Never(session, docId) == FALSE

\* addDocumentToSession: session.activeDocumentIds.includes(docId)
AlreadyInSession(session, docId) == Includes(session.activeDocumentIds, docId)

\* Faulty variant: the new document goes to the front of the list.
DocumentAdded_AtFront(session, docId) ==
    [session EXCEPT !.activeDocumentIds = <<docId>> \o @, !.activeDocumentId = docId]

\* addDocumentToSession: the push and the assignment.
DocumentAdded(session, docId) ==
    [session EXCEPT !.activeDocumentIds = Append(@, docId), !.activeDocumentId = docId]

addDocumentToSession(sessionId, docId) ==
    /\ IsIdle
    /\ IF MapHas(sessions, sessionId) /\ ~AlreadyInSession(MapGet(sessions, sessionId), docId)
       THEN /\ sessions' = MapSet(sessions, sessionId,
                                  DocumentAdded(MapGet(sessions, sessionId), docId))
            /\ lsSessions' = saveSessions(sessions', activeSessionId)
       ELSE UNCHANGED <<sessions, lsSessions>>
    /\ lastCall' = Call("addDocumentToSession", sessionId, undefined, FALSE)
    /\ UNCHANGED <<now, documents, inflight, lsDocuments, quotaExceeded, restoredIds,
                   activeSessionId, chatVars, configVars, pageVars>>

\* Faulty variant: any document id can be selected.
CanSelectDocument_Any(session, docId) == TRUE

\* setActiveDocument: session.activeDocumentIds.includes(docId)
CanSelectDocument(session, docId) == Includes(session.activeDocumentIds, docId)

setActiveDocument(sessionId, docId) ==
    /\ IsIdle
    /\ IF MapHas(sessions, sessionId) /\ CanSelectDocument(MapGet(sessions, sessionId), docId)
       THEN /\ sessions' = MapSet(sessions, sessionId,
                                  [MapGet(sessions, sessionId) EXCEPT !.activeDocumentId = docId])
            /\ lsSessions' = saveSessions(sessions', activeSessionId)
       ELSE UNCHANGED <<sessions, lsSessions>>
    /\ lastCall' = Call("setActiveDocument", sessionId, undefined, FALSE)
    /\ UNCHANGED <<now, documents, inflight, lsDocuments, quotaExceeded, restoredIds,
                   activeSessionId, chatVars, configVars, pageVars>>

\* actions.js renameSession: the caller of SessionStore.persist().
renameSession(sessionId, newName) ==
    /\ IsIdle
    /\ IF MapHas(sessions, sessionId) /\ ~Falsy(newName)
       THEN /\ sessions' = MapSet(sessions, sessionId,
                                  [MapGet(sessions, sessionId) EXCEPT !.name = newName])
            /\ lsSessions' = saveSessions(sessions', activeSessionId)
       ELSE UNCHANGED <<sessions, lsSessions>>
    /\ lastCall' = Call("renameSession", sessionId, undefined, FALSE)
    /\ UNCHANGED <<now, documents, inflight, lsDocuments, quotaExceeded, restoredIds,
                   activeSessionId, chatVars, configVars, pageVars>>

\* restore: the session object that JSON.parse built from a stored record.
\* The record has no activeDocumentId property: it reads as undefined.
RestoredSession(record) ==
    [sessionId |-> record.sessionId,
     name |-> record.name,
     state |-> record.state,
     activeDocumentIds |-> record.activeDocumentIds,
     activeDocumentId |-> undefined,
     createdAt |-> record.createdAt]

RECURSIVE RestoreSessionsInto(_, _)
\* restore: saved.sessions.forEach(... this.sessions.set(id, session))
RestoreSessionsInto(sess, saved) ==
    IF saved = <<>> THEN sess
    ELSE RestoreSessionsInto(MapSet(sess, Head(saved)[1], RestoredSession(Head(saved)[2])),
                             Tail(saved))

\* SessionStore.restore() on the store whose fields are sess and activeId:
\* the fields afterwards.
SessionsAfterRestore(sess, activeId, item) ==
    IF LoadSessionsIsNull(item)
    THEN [sessions |-> sess, activeSessionId |-> activeId]
    ELSE [sessions |-> RestoreSessionsInto(sess, loadSessions(item)),
          activeSessionId |-> item.activeSessionId]

\* SessionStore.restore() called on the store as it is.
restoreSessions ==
    /\ IsIdle
    /\ sessions' = SessionsAfterRestore(sessions, activeSessionId, lsSessions).sessions
    /\ activeSessionId' =
            SessionsAfterRestore(sessions, activeSessionId, lsSessions).activeSessionId
    /\ lsSessions' = AfterLoadSessions(lsSessions)
    /\ lastCall' = Call("restoreSessions", null, undefined, FALSE)
    /\ UNCHANGED <<now, documents, inflight, lsDocuments, quotaExceeded, restoredIds, chatVars, configVars, pageVars>>

----------------------------------------------------------------------------
(* stores.js: ChatStore *)

\* The session ids addMessage and getMessages are called with: ids of
\* sessions, and the falsy values.
ChatSessionIds == {"1", "2", null, ""}

\* The role, content and evidence arguments of addMessage.  actions.js
\* passes no evidence: the default parameter null.
MessageArgs ==
    {<<"user", "hi", null>>, <<"assistant", "hello", null>>,
     <<"assistant", "see page 1", "p1">>}

\* The number of messages in the entries of a Map sessionId -> messages[].
RECURSIVE CountMessages(_)
CountMessages(entries) ==
    IF entries = <<>> THEN 0 ELSE Len(Head(entries)[2]) + CountMessages(Tail(entries))

\* The message object that addMessage builds.
NewMessage(role, content, evidence) ==
    [id |-> DateToString(now),
     role |-> role,
     content |-> content,
     evidence |-> evidence,
     createdAt |-> now]

\* The log of a session, or the empty list: sessionMessages.get(id) || []
LogOf(entries, sessionId) ==
    IF MapHas(entries, sessionId) THEN MapGet(entries, sessionId) ELSE <<>>

\* Faulty variant: the message goes to the front of the log.
MessagePushed_AtFront(entries, sessionId, message) ==
    MapSet(entries, sessionId, <<message>> \o LogOf(entries, sessionId))

\* addMessage: the log is created if absent, and the message pushed.
MessagePushed(entries, sessionId, message) ==
    MapSet(entries, sessionId, Append(LogOf(entries, sessionId), message))

addMessage(sessionId, role, content, evidence) ==
    /\ IsIdle
    /\ IF Falsy(sessionId)
       THEN /\ lastCall' = Call("addMessage", sessionId, null, FALSE)
            /\ UNCHANGED <<sessionMessages, lsMessages, addedMessages>>
       ELSE /\ CountMessages(sessionMessages) < MaxMessages
            /\ sessionMessages' = MessagePushed(sessionMessages, sessionId,
                                                NewMessage(role, content, evidence))
            /\ lsMessages' = saveMessages(sessionMessages')
            /\ addedMessages' =
                    MapSet(addedMessages, sessionId,
                           Append(LogOf(addedMessages, sessionId),
                                  NewMessage(role, content, evidence)))
            /\ lastCall' = Call("addMessage", sessionId, DateToString(now), FALSE)
    /\ UNCHANGED <<now, documents, inflight, lsDocuments, quotaExceeded, restoredIds,
                   sessionVars, returned, isSending, configVars, pageVars>>

\* getMessages(sessionId), on the map entries: the messages of the array
\* it returns.
getMessages(entries, sessionId) ==
    IF Falsy(sessionId) THEN <<>> ELSE LogOf(entries, sessionId)

\* A call of getMessages: the caller keeps the array.
getMessagesCall(sessionId) ==
    /\ IsIdle
    /\ returned' = Returned(sessionId,
                            [i \in DOMAIN getMessages(sessionMessages, sessionId) |-> i])
    /\ lastCall' = Call("getMessages", sessionId, undefined, FALSE)
    /\ UNCHANGED <<now, documents, inflight, lsDocuments, quotaExceeded, restoredIds,
                   sessionVars, sessionMessages, lsMessages, addedMessages,
                   isSending, configVars, pageVars>>

\* setSending(isSending): an assignment to the field; persist is not called.
setSending(value) ==
    /\ IsIdle
    /\ isSending' = value
    /\ lastCall' = Call("setSending", null, undefined, FALSE)
    /\ UNCHANGED <<now, documents, inflight, lsDocuments, quotaExceeded, restoredIds,
                   sessionVars, sessionMessages, lsMessages, addedMessages, returned,
                   configVars, pageVars>>

RECURSIVE MapFromEntries(_, _)
\* new Map(entries): the entries are set in order.
MapFromEntries(m, entries) ==
    IF entries = <<>> THEN m
    ELSE MapFromEntries(MapSet(m, Head(entries)[1], Head(entries)[2]), Tail(entries))

\* ChatStore.restore(): new Map(saved.sessionMessages) throws a TypeError
\* when an element of the array is not an entry.  loadMessages validates
\* no element, and restore has no try block.
ChatRestoreThrows(item) ==
    /\ ~LoadMessagesIsNull(item)
    /\ \E i \in DOMAIN item.sessionMessages : ~IsArrayEntry(item.sessionMessages[i])

\* ChatStore.restore(): this.sessionMessages = new Map(saved.sessionMessages)
\* when loadMessages returns a value; the field afterwards.
MessagesAfterRestore(entries, item) ==
    IF LoadMessagesIsNull(item) \/ ChatRestoreThrows(item) THEN entries
    ELSE MapFromEntries(<<>>, item.sessionMessages)

\* console.warn of the three loads of init(): the families whose snapshot
\* was outdated and has been cleared ("s", "d", "m"), or null when none was.
ClearedFamilies(sItem, dItem, mItem) ==
    LET Stale(item) == item.kind = "json" /\ item.version < STORAGE_VERSION
        text == (IF Stale(sItem) THEN "s" ELSE "") \o (IF Stale(dItem) THEN "d" ELSE "")
                    \o (IF Stale(mItem) THEN "m" ELSE "")
    IN  IF text = "" THEN null ELSE text

\* How init() ends: it returns, or the TypeError of chatStore.restore()
\* leaves it (render and bindEvents are not reached).
InitOutcome(mItem) == IF ChatRestoreThrows(mItem) THEN "TypeError" ELSE undefined

\* init(): sessionStore.restore() and chatStore.restore() on the stores a
\* page load has just constructed.  What the callers of the old page held
\* is gone with it.
InitRestoresSessionsAndChat ==
    /\ sessions' = SessionsAfterRestore(<<>>, null, lsSessions).sessions
    /\ activeSessionId' = SessionsAfterRestore(<<>>, null, lsSessions).activeSessionId
    /\ lsSessions' = AfterLoadSessions(lsSessions)
    /\ sessionMessages' = MessagesAfterRestore(<<>>, lsMessages)
    /\ lsMessages' = AfterLoadMessages(lsMessages)
    /\ returned' = NoArray
    /\ isSending' = FALSE
    /\ UNCHANGED addedMessages

\* A page reload: the script runs again (new stores) and actions.js init()
\* restores them.  The calls that were awaiting are gone with the old page.
reload ==
    LET saved == loadDocuments(lsDocuments)
    IN  /\ IsIdle
        /\ InitRestoresSessionsAndChat
        /\ documents' = RestoreInto(<<>>, saved)
        /\ lsDocuments' = AfterLoadDocuments(lsDocuments)
        /\ inflight' = EmptyBag
        /\ restoredIds' = {saved[i][1] : i \in DOMAIN saved}
        /\ lastCall' = Call("reload", ClearedFamilies(lsSessions, lsDocuments, lsMessages),
                            InitOutcome(lsMessages), FALSE)
        /\ analysis' = EmptyBag
        /\ UNCHANGED <<now, quotaExceeded, configVars, overwritten>>

\* The operations of the page.
Next ==
    \/ Idle
    \/ Tick
    \/ \E file \in Files : addDocument(file)
    \/ \E docId \in DocIds, file \in Files : reuploadDocument(docId, file)
    \/ \E docId \in DocIds : isQueryableCall(docId)
    \/ \E docId \in DocIds : parseDocument(docId)
    \/ \E req \in BagToSet(inflight), outcome \in ParseOutcomes : parseSettle(req, outcome)
    \/ reload

Spec == Init /\ [][Next]_vars

\* The operations of the SessionStore, and page reloads.
NextSession ==
    \/ Idle
    \/ Tick
    \/ createSession(DefaultName)
    \/ \E sessionId \in SessionIds : setActiveSession(sessionId)
    \/ \E sessionId \in SessionIds, docId \in SessionDocIds :
            addDocumentToSession(sessionId, docId)
    \/ \E sessionId \in SessionIds, docId \in SessionDocIds :
            setActiveDocument(sessionId, docId)
    \/ \E sessionId \in SessionIds, newName \in PromptAnswers :
            renameSession(sessionId, newName)
    \/ restoreSessions
    \/ reload

SpecSession == Init /\ [][NextSession]_vars

\* The names createSession is called with: its default, a name, the empty
\* name.
SessionNames == {DefaultName, "Q3 review", ""}

\* Sessions created with any name, switched between, and page reloads.
NextNames ==
    \/ Idle
    \/ Tick
    \/ \E name \in SessionNames : createSession(name)
    \/ \E sessionId \in SessionIds : setActiveSession(sessionId)
    \/ reload

SpecNames == Init /\ [][NextNames]_vars

\* The operations of the ChatStore, and page reloads.
NextChat ==
    \/ Idle
    \/ Tick
    \/ \E sessionId \in ChatSessionIds, args \in MessageArgs :
            addMessage(sessionId, args[1], args[2], args[3])
    \/ \E sessionId \in ChatSessionIds : getMessagesCall(sessionId)
    \/ \E value \in BOOLEAN : setSending(value)
    \/ reload

SpecChat == Init /\ [][NextChat]_vars

\* A caller of getMessages pushes an object of its own on the array it got.
callerPush ==
    /\ IsIdle
    /\ returned # NoArray
    /\ Len(returned.refs) <= MaxMessages
    /\ returned' = [returned EXCEPT !.refs = Append(@, 0)]
    /\ lastCall' = Call("callerPush", returned.sessionId, undefined, FALSE)
    /\ UNCHANGED <<now, documents, inflight, lsDocuments, quotaExceeded, restoredIds,
                   sessionVars, sessionMessages, lsMessages, addedMessages,
                   isSending, configVars, pageVars>>

\* The caller pops the last element of the array.
callerPop ==
    /\ IsIdle
    /\ returned.refs # <<>>
    /\ returned' = [returned EXCEPT !.refs = SubSeq(@, 1, Len(@) - 1)]
    /\ lastCall' = Call("callerPop", returned.sessionId, undefined, FALSE)
    /\ UNCHANGED <<now, documents, inflight, lsDocuments, quotaExceeded, restoredIds,
                   sessionVars, sessionMessages, lsMessages, addedMessages,
                   isSending, configVars, pageVars>>

\* The caller reverses the array in place.
callerReverse ==
    /\ IsIdle
    /\ Len(returned.refs) > 1
    /\ returned' = [returned EXCEPT !.refs = [i \in DOMAIN @ |-> @[Len(@) + 1 - i]]]
    /\ lastCall' = Call("callerReverse", returned.sessionId, undefined, FALSE)
    /\ UNCHANGED <<now, documents, inflight, lsDocuments, quotaExceeded, restoredIds,
                   sessionVars, sessionMessages, lsMessages, addedMessages,
                   isSending, configVars, pageVars>>

\* The text a caller writes into a message.
EditedContent == "edited"

\* The caller assigns to the content property of element i of the array.
\* The element is the message object of the store's log (the array is a
\* shallow copy), unless the caller put the element there itself.
callerWrite(i) ==
    /\ IsIdle
    /\ i \in DOMAIN returned.refs
    /\ IF returned.live /\ returned.refs[i] > 0
       THEN sessionMessages' =
                MapSet(sessionMessages, returned.sessionId,
                       [MapGet(sessionMessages, returned.sessionId)
                            EXCEPT ![returned.refs[i]].content = EditedContent])
       ELSE UNCHANGED sessionMessages
    /\ lastCall' = Call("callerWrite", returned.sessionId, undefined, FALSE)
    /\ UNCHANGED <<now, documents, inflight, lsDocuments, quotaExceeded, restoredIds,
                   sessionVars, lsMessages, addedMessages, returned, isSending,
                   configVars, pageVars>>

\* The operations of the ChatStore within one page and one reading of the
\* clock, and callers that write to what getMessages gave them.
NextChatCaller ==
    \/ Idle
    \/ \E sessionId \in ChatSessionIds, args \in MessageArgs :
            addMessage(sessionId, args[1], args[2], args[3])
    \/ \E sessionId \in ChatSessionIds : getMessagesCall(sessionId)
    \/ callerPush
    \/ callerPop
    \/ callerReverse
    \/ \E i \in 1..(MaxMessages + 1) : callerWrite(i)

SpecChatCaller == Init /\ [][NextChatCaller]_vars

----------------------------------------------------------------------------
(* The environment of the page: the user's browser *)

\* A stored document record written by hand, for the document "1".
CraftedDoc(state, artifactId, parseError) ==
    [docId |-> "1",
     state |-> state,
     metadata |-> [name |-> "report.pdf", size |-> 4, type |-> "application/pdf",
                   uploadedAt |-> 1],
     parsedArtifactId |-> artifactId,
     parseError |-> parseError]

\* JSON text of the current version holding the entries.
CraftedItem(entries) ==
    [kind |-> "json", version |-> STORAGE_VERSION, isArray |-> TRUE,
     documents |-> entries, timestamp |-> 1]

\* Values that are put under the documents key from outside the page:
\* text that is not JSON, a snapshot of the previous format, JSON of the
\* wrong shape, and snapshots of the current version whose record claims
\* a state, with or without the artifact that would justify it.
CraftedItems ==
    {GarbageItem,
     [CraftedItem(<<<<"1", CraftedDoc(PARSED, "1", null)>>>>) EXCEPT !.version = 1],
     [CraftedItem(<<>>) EXCEPT !.isArray = FALSE],
     CraftedItem(<<<<"1", CraftedDoc(PARSED, null, null)>>>>),
     CraftedItem(<<<<"1", CraftedDoc(PARSED, undefined, null)>>>>),
     CraftedItem(<<<<"1", CraftedDoc(PARSED, "1", null)>>>>),
     CraftedItem(<<<<"1", CraftedDoc(PARSING, null, null)>>>>),
     CraftedItem(<<<<"1", [CraftedDoc(UPLOADED, null, null) EXCEPT !.docId = undefined]>>>>)}

\* The documents key is written from outside while the page is closed,
\* and the page is opened: init() restores a new store from it.
reloadTampered(item) ==
    LET saved == loadDocuments(item)
    IN  /\ IsIdle
        /\ InitRestoresSessionsAndChat
        /\ documents' = RestoreInto(<<>>, saved)
        /\ lsDocuments' = AfterLoadDocuments(item)
        /\ inflight' = EmptyBag
        /\ restoredIds' = {saved[i][1] : i \in DOMAIN saved}
        /\ lastCall' = Call("reload", ClearedFamilies(lsSessions, item, lsMessages),
                            InitOutcome(lsMessages), FALSE)
        /\ analysis' = EmptyBag
        /\ UNCHANGED <<now, quotaExceeded, configVars, overwritten>>

\* The storage quota of the origin is reached, or space is freed again.
quotaChange ==
    /\ IsIdle
    /\ UNCHANGED <<sessionVars, chatVars, configVars, pageVars>>
    /\ quotaExceeded' = ~quotaExceeded
    /\ UNCHANGED <<now, documents, inflight, lsDocuments, lastCall, restoredIds>>

\* The operations of the page, on storage that may have been written
\* from outside.
NextTampered ==
    \/ Next
    \/ \E item \in CraftedItems : reloadTampered(item)

SpecTampered == Init /\ [][NextTampered]_vars

\* The operations of the page, and restore() called at any time.
NextRestore ==
    \/ Next
    \/ restore

SpecRestore == Init /\ [][NextRestore]_vars

\* The operations of the page under a storage quota that comes and goes.
NextQuota ==
    \/ Next
    \/ quotaChange

SpecQuota == Init /\ [][NextQuota]_vars

\* The writing operations of the three stores, within one tick of the
\* clock, under a storage quota that comes and goes.
NextWrites ==
    \/ Idle
    \/ quotaChange
    \/ \E file \in Files : addDocument(file)
    \/ \E docId \in DocIds : parseDocument(docId)
    \/ \E req \in BagToSet(inflight), outcome \in ParseOutcomes : parseSettle(req, outcome)
    \/ createSession(DefaultName)
    \/ \E sessionId \in SessionIds, docId \in SessionDocIds :
            addDocumentToSession(sessionId, docId)
    \/ addMessage(DateToString(now), "user", "hi", null)

SpecWrites == Init /\ [][NextWrites]_vars

\* The operations of the three stores that can refuse (an unknown id, a
\* document without its file or not waiting to be parsed, a document that
\* is not in the session, a missing session id) and those that bring the
\* stores to such states, within one tick of the clock.
NextStores ==
    \/ Idle
    \/ \E file \in Files : addDocument(file)
    \/ \E docId \in DocIds, file \in Files : reuploadDocument(docId, file)
    \/ \E docId \in DocIds : parseDocument(docId)
    \/ \E req \in BagToSet(inflight), outcome \in ParseOutcomes : parseSettle(req, outcome)
    \/ reload
    \/ createSession(DefaultName)
    \/ \E sessionId \in SessionIds : setActiveSession(sessionId)
    \/ \E sessionId \in SessionIds, docId \in SessionDocIds :
            addDocumentToSession(sessionId, docId)
    \/ \E sessionId \in SessionIds, docId \in SessionDocIds :
            setActiveDocument(sessionId, docId)
    \/ \E sessionId \in ChatSessionIds : addMessage(sessionId, "user", "hi", null)

SpecStores == Init /\ [][NextStores]_vars

----------------------------------------------------------------------------
(* actions.js: the handlers of the page that ask a question *)

\* getActiveSession() returns a session (not null, not undefined).
HasActiveSession == ~Falsy(activeSessionId) /\ MapHas(sessions, activeSessionId)

\* getActiveSession(), when it returns a session.
getActiveSession == MapGet(sessions, activeSessionId)

\* getActiveDocument() returns a document (not null, not undefined).
HasActiveDocument ==
    /\ HasActiveSession
    /\ ~Falsy(getActiveSession.activeDocumentId)
    /\ MapHas(documents, getActiveSession.activeDocumentId)

\* getActiveDocument(), when it returns a document.
getActiveDocument == MapGet(documents, getActiveSession.activeDocumentId)

\* Faulty variant: a document that has been parsed once can be asked about.
canAskQuestions_HasArtifact ==
    HasActiveDocument /\ getActiveDocument.parsedArtifactId # null

\* canAskQuestions(): doc && documentStore.isQueryable(doc.docId)
canAskQuestions == HasActiveDocument /\ isQueryable(documents, getActiveDocument.docId)

\* What inputManager.getValue() returns: the text of the input, possibly
\* empty.
Questions == {"What are the key findings?", ""}

\* What the awaited analyzeWithIntent delivers: the answer, or an error
\* thrown (a response that is not ok, an incomplete result, a network
\* error).
AnalysisOutcomes == {"ok", "error"}

\* The content of the assistant message for an outcome.
AssistantContent(outcome) ==
    IF outcome = "ok" THEN "Source document and answer"
    ELSE "Analysis failed: Connection lost. Retry"

\* A processQuestion call suspended at its await: the session and the
\* document it holds in its locals, by their ids, and the question.
Analysis(sessionId, docId, question) ==
    [sessionId |-> sessionId, docId |-> docId, question |-> question]

\* chatStore.addMessage(sessionId, ...) on the map entries: the map
\* afterwards.
MessageAdded(entries, sessionId, message) ==
    IF Falsy(sessionId) THEN entries ELSE MessagePushed(entries, sessionId, message)

\* The number of user messages in the entries of a Map sessionId ->
\* messages[].
RECURSIVE CountQuestions(_)
CountQuestions(entries) ==
    IF entries = <<>> THEN 0
    ELSE Len(SelectSeq(Head(entries)[2], LAMBDA m : m.role = "user"))
            + CountQuestions(Tail(entries))

\* Faulty variant: the send flag is not looked at.
AskIgnored_NoFlag(question) == Falsy(question) \/ ~canAskQuestions

\* askQuestion: the two early returns.
\* if (!question || chatStore.isSending) return; if (!canAsk) return;
AskIgnored(question) == Falsy(question) \/ isSending \/ ~canAskQuestions

\* Faulty variant: when the answer arrives, the messages go to the
\* session that is active then.
AnswerSession_Active(req) == IF HasActiveSession THEN activeSessionId ELSE req.sessionId

\* processQuestion after the await: session.sessionId of the local it
\* took before the await.
AnswerSession(req) == req.sessionId

\* askQuestion(), and processQuestion(question) up to its await.
askQuestion(question) ==
    /\ IsIdle
    /\ IF AskIgnored(question)
       THEN /\ lastCall' = Call("askQuestion", null, undefined, FALSE)
            /\ UNCHANGED <<chatVars, analysis>>
       ELSE LET sessionId == getActiveSession.sessionId
                message == NewMessage("user", question, null)
            IN  /\ CountQuestions(sessionMessages) < MaxQuestions
                /\ isSending' = TRUE
                /\ sessionMessages' = MessageAdded(sessionMessages, sessionId, message)
                /\ lsMessages' = saveMessages(sessionMessages')
                /\ addedMessages' = MessageAdded(addedMessages, sessionId, message)
                /\ analysis' = analysis (+) SetToBag({Analysis(sessionId,
                                                               getActiveDocument.docId,
                                                               question)})
                /\ lastCall' = Call("askQuestion", sessionId, undefined, TRUE)
                /\ UNCHANGED returned
    /\ UNCHANGED <<now, documents, inflight, lsDocuments, quotaExceeded, restoredIds,
                   sessionVars, configVars, overwritten>>

\* processQuestion, from the settling of analyzeWithIntent to its end:
\* the assistant message of the try or of the catch block, and finally
\* setSending(false).
analysisSettle(req, outcome) ==
    LET message == NewMessage("assistant", AssistantContent(outcome), null)
    IN  /\ IsIdle
        /\ BagIn(req, analysis)
        /\ sessionMessages' = MessageAdded(sessionMessages, AnswerSession(req), message)
        /\ lsMessages' = saveMessages(sessionMessages')
        /\ addedMessages' = MessageAdded(addedMessages, AnswerSession(req), message)
        /\ isSending' = FALSE
        /\ analysis' = analysis (-) SetToBag({req})
        /\ lastCall' = Call("analysisSettle", req.sessionId, undefined, FALSE)
        /\ UNCHANGED <<now, documents, inflight, lsDocuments, quotaExceeded, restoredIds,
                       sessionVars, returned, configVars, overwritten>>

\* handleFileSelection(e) for a new document (no re-upload is pending):
\* a session is created when none is active, then addDocument and
\* addDocumentToSession.
handleFileSelection(file) ==
    LET id == DateToString(now)
        created == IF HasActiveSession THEN sessions
                   ELSE MapSet(sessions, id, NewSession(id, DefaultName))
        activeId == IF HasActiveSession THEN activeSessionId ELSE id
        sessionId == MapGet(created, activeId).sessionId
        added == MapHas(created, sessionId)
                    /\ ~AlreadyInSession(MapGet(created, sessionId), id)
    IN  /\ IsIdle
        /\ documents' = MapSet(documents, id, NewDocument(id, file))
        /\ lsDocuments' = saveDocuments(documents')
        /\ inflight' = Orphan(inflight, {id})
        /\ restoredIds' = restoredIds \ {id}
        /\ sessions' = IF added
                       THEN MapSet(created, sessionId,
                                   DocumentAdded(MapGet(created, sessionId), id))
                       ELSE created
        /\ activeSessionId' = activeId
        /\ lsSessions' = IF added \/ ~HasActiveSession
                         THEN saveSessions(sessions', activeSessionId')
                         ELSE lsSessions
        /\ lastCall' = Call("handleFileSelection", id, undefined, FALSE)
        /\ UNCHANGED <<now, quotaExceeded, chatVars, configVars, pageVars>>

\* handleFileSelection(e) while window.pendingReuploadDocId is docId
\* (triggerReupload, or a click on a document that requires re-upload):
\* reuploadDocument and, on success, setActiveDocument.
handleReuploadSelection(docId, file) ==
    LET selected == MapHas(documents, docId)
                        /\ CanSelectDocument(getActiveSession, docId)
    IN  /\ IsIdle
        /\ HasActiveSession
        /\ IF MapHas(documents, docId)
           THEN /\ documents' = MapSet(documents, docId,
                                       Reuploaded(MapGet(documents, docId), file))
                /\ lsDocuments' = saveDocuments(documents')
                /\ inflight' = Supersede(inflight, docId)
                /\ restoredIds' = restoredIds \ {docId}
           ELSE UNCHANGED <<documents, lsDocuments, inflight, restoredIds>>
        /\ sessions' = IF selected
                       THEN MapSet(sessions, activeSessionId,
                                   [getActiveSession EXCEPT !.activeDocumentId = docId])
                       ELSE sessions
        /\ lsSessions' = IF selected THEN saveSessions(sessions', activeSessionId)
                         ELSE lsSessions
        /\ lastCall' = Call("handleFileSelection", docId, undefined, FALSE)
        /\ UNCHANGED <<now, quotaExceeded, activeSessionId, chatVars, configVars, pageVars>>

\* The handlers of the page within one tick of the clock: sessions, files,
\* parsing, document selection, questions, and page reloads.
NextPage ==
    \/ Idle
    \/ createSession(DefaultName)
    \/ \E sessionId \in SessionIds : setActiveSession(sessionId)
    \/ \E file \in Files : handleFileSelection(file)
    \/ \E docId \in DocIds, file \in Files : handleReuploadSelection(docId, file)
    \/ \E docId \in SessionDocIds : HasActiveSession /\ setActiveDocument(activeSessionId, docId)
    \/ \E docId \in DocIds : parseDocument(docId)
    \/ \E req \in BagToSet(inflight), outcome \in ParseOutcomes : parseSettle(req, outcome)
    \/ \E question \in Questions : askQuestion(question)
    \/ \E req \in BagToSet(analysis), outcome \in AnalysisOutcomes : analysisSettle(req, outcome)
    \/ reload

SpecPage == Init /\ [][NextPage]_vars

\* The page holds one session and one document, not yet parsed, and no
\* question has been asked.
QuietStart ==
    /\ Len(sessions) = 1
    /\ Len(documents) = 1
    /\ \A i \in DOMAIN documents : documents[i][2].state = UPLOADED
    /\ inflight = EmptyBag
    /\ sessionMessages = <<>>

\* The handlers of one page: time passes between the first session with
\* its document and what follows; then, within one tick of the clock,
\* sessions are created and switched between, documents uploaded, parsed
\* (the collaborator answers every parse with a success) and selected
\* while questions are asked and answered.  The sessions and documents
\* clicked on are those the page lists.
NextSwitch ==
    \/ Idle
    \/ QuietStart /\ Tick
    \/ createSession(DefaultName)
    \/ \E sessionId \in MapKeys(sessions) : setActiveSession(sessionId)
    \/ \E file \in Files : handleFileSelection(file)
    \/ \E docId \in MapKeys(documents) : HasActiveSession /\ setActiveDocument(activeSessionId, docId)
    \/ \E docId \in MapKeys(documents) : parseDocument(docId)
    \/ \E req \in BagToSet(inflight) : parseSettle(req, "ok")
    \/ \E question \in Questions : askQuestion(question)
    \/ \E req \in BagToSet(analysis), outcome \in AnalysisOutcomes : analysisSettle(req, outcome)

SpecSwitch == Init /\ [][NextSwitch]_vars

\* The operations of the DocumentStore within one tick of the clock, with
\* every answer the collaborator can give.
NextParse ==
    \/ Idle
    \/ \E file \in Files : addDocument(file)
    \/ \E docId \in DocIds, file \in Files : reuploadDocument(docId, file)
    \/ \E docId \in DocIds : parseDocument(docId)
    \/ \E req \in BagToSet(inflight), outcome \in ParseResponses : parseSettle(req, outcome)
    \/ reload

SpecParse == Init /\ [][NextParse]_vars

----------------------------------------------------------------------------
(* The storage keys written from outside, and the clear operations *)

GarbageSessionsItem ==
    [kind |-> "garbage", version |-> 0, isArray |-> FALSE, sessions |-> <<>>,
     activeSessionId |-> undefined, timestamp |-> 0]

GarbageMessagesItem ==
    [kind |-> "garbage", version |-> 0, isArray |-> FALSE, sessionMessages |-> <<>>,
     timestamp |-> 0]

\* A stored session record written by hand, for the session "1".
CraftedSession(name) ==
    [sessionId |-> "1", name |-> name, state |-> ACTIVE, activeDocumentIds |-> <<"1">>,
     createdAt |-> 1]

CraftedSessionsItem(entries) ==
    [kind |-> "json", version |-> STORAGE_VERSION, isArray |-> TRUE,
     sessions |-> entries, activeSessionId |-> "1", timestamp |-> 1]

\* A stored message written by hand.
CraftedMessage ==
    [id |-> "1", role |-> "user", content |-> "hi", evidence |-> null, createdAt |-> 1]

CraftedMessagesItem(entries) ==
    [kind |-> "json", version |-> STORAGE_VERSION, isArray |-> TRUE,
     sessionMessages |-> entries, timestamp |-> 1]

\* Values put under each key from outside the page: text that is not
\* JSON, a snapshot of the previous format, JSON of the wrong shape, a
\* well-formed snapshot, and snapshots in which a well-formed entry is
\* followed by a malformed one (an entry whose value lacks a required
\* property, for the messages an entry without an id; an element that is
\* not an entry).
CorruptSessionsItems ==
    {GarbageSessionsItem,
     [CraftedSessionsItem(<<<<"1", CraftedSession("Notes")>>>>) EXCEPT !.version = 1],
     [CraftedSessionsItem(<<>>) EXCEPT !.isArray = FALSE],
     CraftedSessionsItem(<<<<"1", CraftedSession("Notes")>>>>),
     CraftedSessionsItem(<<<<"1", CraftedSession("Notes")>>, <<"2", CraftedSession("")>>>>),
     CraftedSessionsItem(<<<<"1", CraftedSession("Notes")>>, NotAnEntry>>)}

CorruptDocumentsItems ==
    {GarbageItem,
     [CraftedItem(<<<<"1", CraftedDoc(UPLOADED, null, null)>>>>) EXCEPT !.version = 1],
     [CraftedItem(<<>>) EXCEPT !.isArray = FALSE],
     CraftedItem(<<<<"1", CraftedDoc(UPLOADED, null, null)>>>>),
     CraftedItem(<<<<"1", CraftedDoc(UPLOADED, null, null)>>,
                   <<"2", [CraftedDoc(UPLOADED, null, null) EXCEPT !.docId = undefined]>>>>),
     CraftedItem(<<<<"1", CraftedDoc(UPLOADED, null, null)>>, NotAnEntry>>)}

CorruptMessagesItems ==
    {GarbageMessagesItem,
     [CraftedMessagesItem(<<<<"1", <<CraftedMessage>>>>>>) EXCEPT !.version = 1],
     [CraftedMessagesItem(<<>>) EXCEPT !.isArray = FALSE],
     CraftedMessagesItem(<<<<"1", <<CraftedMessage>>>>>>),
     CraftedMessagesItem(<<<<"1", <<CraftedMessage>>>>, <<"", <<CraftedMessage>>>>>>),
     CraftedMessagesItem(<<<<"1", <<CraftedMessage>>>>, NotAnEntry>>)}

\* A key is written from outside the page (another tab, the developer
\* tools, an older release of the application).
writeSessionsKey(item) ==
    /\ IsIdle
    /\ lsSessions' = item
    /\ UNCHANGED <<now, documents, inflight, lsDocuments, quotaExceeded, lastCall,
                   restoredIds, sessions, activeSessionId, chatVars, configVars, pageVars>>

writeDocumentsKey(item) ==
    /\ IsIdle
    /\ lsDocuments' = item
    /\ UNCHANGED <<now, documents, inflight, quotaExceeded, lastCall, restoredIds,
                   sessionVars, chatVars, configVars, pageVars>>

writeMessagesKey(item) ==
    /\ IsIdle
    /\ lsMessages' = item
    /\ UNCHANGED <<now, documents, inflight, lsDocuments, quotaExceeded, lastCall,
                   restoredIds, sessionVars, sessionMessages, addedMessages, returned,
                   isSending, configVars, pageVars>>

\* The configuration objects saveConfig is called with.
Configs == {"apiKey"}

\* saveConfig(config).  The exception of setItem is caught and logged.
saveConfig(config) ==
    /\ IsIdle
    /\ lsConfig' = setItem(lsConfig, [kind |-> "json", config |-> config])
    /\ lastCall' = Call("saveConfig", null, undefined, FALSE)
    /\ UNCHANGED <<now, documents, inflight, lsDocuments, quotaExceeded, restoredIds,
                   sessionVars, chatVars, pageVars>>

\* clearSessions(): localStorage.removeItem of the sessions key.
clearSessions ==
    /\ IsIdle
    /\ lsSessions' = AbsentSessionsItem
    /\ lastCall' = Call("clearSessions", null, undefined, FALSE)
    /\ UNCHANGED <<now, documents, inflight, lsDocuments, quotaExceeded, restoredIds,
                   sessions, activeSessionId, chatVars, configVars, pageVars>>

\* clearDocuments(): localStorage.removeItem of the documents key.
clearDocuments ==
    /\ IsIdle
    /\ lsDocuments' = AbsentItem
    /\ lastCall' = Call("clearDocuments", null, undefined, FALSE)
    /\ UNCHANGED <<now, documents, inflight, quotaExceeded, restoredIds,
                   sessionVars, chatVars, configVars, pageVars>>

\* clearMessages(): localStorage.removeItem of the messages key.
clearMessages ==
    /\ IsIdle
    /\ lsMessages' = AbsentMessagesItem
    /\ lastCall' = Call("clearMessages", null, undefined, FALSE)
    /\ UNCHANGED <<now, documents, inflight, lsDocuments, quotaExceeded, restoredIds,
                   sessionVars, sessionMessages, addedMessages, returned, isSending,
                   configVars, pageVars>>

\* Faulty variant: the global clear forgets the configuration key.
clearAllData_KeepsConfig ==
    /\ IsIdle
    /\ lsSessions' = AbsentSessionsItem
    /\ lsDocuments' = AbsentItem
    /\ lsMessages' = AbsentMessagesItem
    /\ lastCall' = Call("clearAllData", null, undefined, FALSE)
    /\ UNCHANGED <<now, documents, inflight, quotaExceeded, restoredIds,
                   sessions, activeSessionId, sessionMessages, addedMessages, returned,
                   isSending, configVars, pageVars>>

\* clearAllData(): the three clears, then removeItem of the configuration
\* key.
clearAllData ==
    /\ IsIdle
    /\ lsSessions' = AbsentSessionsItem
    /\ lsDocuments' = AbsentItem
    /\ lsMessages' = AbsentMessagesItem
    /\ lsConfig' = AbsentConfigItem
    /\ lastCall' = Call("clearAllData", null, undefined, FALSE)
    /\ UNCHANGED <<now, documents, inflight, quotaExceeded, restoredIds,
                   sessions, activeSessionId, sessionMessages, addedMessages, returned,
                   isSending, pageVars>>

\* Page loads on storage written from outside, the clear operations, and
\* the store operation that shows the page is usable.
NextStorage ==
    \/ Idle
    \/ \E item \in CorruptSessionsItems : writeSessionsKey(item)
    \/ \E item \in CorruptDocumentsItems : writeDocumentsKey(item)
    \/ \E item \in CorruptMessagesItems : writeMessagesKey(item)
    \/ \E config \in Configs : saveConfig(config)
    \/ reload
    \/ createSession(DefaultName)
    \/ clearSessions
    \/ clearDocuments
    \/ clearMessages
    \/ clearAllData

SpecStorage == Init /\ [][NextStorage]_vars

----------------------------------------------------------------------------
(* Properties of the Document Store *)

\* The ids of the documents in the store, and the document of an id.
KnownIds == MapKeys(documents)
Doc(docId) == MapGet(documents, docId)

\* The valid records of the text under the documents key, when the text
\* is a snapshot of the current version (what loadDocuments reads).
StoredRecords ==
    IF LoadDocumentsIsNull(lsDocuments) THEN {}
    ELSE {lsDocuments.documents[i] : i \in
            {j \in DOMAIN lsDocuments.documents : ~InvalidDocEntry(lsDocuments.documents[j])}}

\* A page load has just restored the store from the documents key.
JustReloaded == lastCall.op = "reload"

\* C1: in every reachable state, every document whose state is PARSED has
\* an artifact id (not null, not undefined).
C1_ParsedHasArtifact ==
    \A docId \in KnownIds :
        Doc(docId).state = PARSED => ~Falsy(Doc(docId).parsedArtifactId)

\* C1 witness: a parse has succeeded and its document is PARSED.
C1_Witness ==
    /\ lastCall.op = "parseSettle"
    /\ lastCall.ret = "true"
    /\ MapHas(documents, lastCall.id)
    /\ Doc(lastCall.id).state = PARSED

\* C2: a call isQueryable(id) returns true exactly when the document
\* exists, is PARSED and has an artifact id; it returns false for a
\* document in any other state and for an unknown id; and the call leaves
\* the documents, the awaiting calls and the storage as they were.
C2_IsQueryable ==
    [][\A docId \in DocIds :
         isQueryableCall(docId) =>
            /\ lastCall'.ret \in {"true", "false"}
            /\ lastCall'.ret = "true" <=>
                  /\ docId \in KnownIds
                  /\ Doc(docId).state = PARSED
                  /\ ~Falsy(Doc(docId).parsedArtifactId)
            /\ (docId \notin KnownIds => lastCall'.ret = "false")
            /\ (docId \in KnownIds /\ Doc(docId).state \in
                    {UPLOADED, PARSING, PARSE_FAILED, REQUIRES_REUPLOAD}
                  => lastCall'.ret = "false")
            /\ UNCHANGED <<documents, inflight, lsDocuments>>]_vars

\* C2 witness: isQueryable has answered true for a document of the store.
C2_Witness ==
    /\ lastCall.op = "isQueryable"
    /\ lastCall.id \in KnownIds
    /\ lastCall.ret = "true"

\* C3: after a page load, every document whose stored record says PARSING
\* is in the store as PARSE_FAILED with a parseError, never as PARSING.
C3_ParsingNeverSurvivesRestore ==
    JustReloaded =>
        \A e \in StoredRecords :
            e[2].state = PARSING =>
                /\ MapHas(documents, e[1])
                /\ Doc(e[1]).state = PARSE_FAILED
                /\ ~Falsy(Doc(e[1]).parseError)

\* C3 witness: a page load has read a record that says PARSING.
C3_Witness ==
    /\ JustReloaded
    /\ \E e \in StoredRecords : e[2].state = PARSING

\* C4 as claimed: after a page load, every document whose stored record
\* says PARSED with an artifact id is PARSED in the store and isQueryable
\* is true for it.
C4_ParsedSurvivesRefresh ==
    JustReloaded =>
        \A e \in StoredRecords :
            e[2].state = PARSED /\ ~Falsy(e[2].parsedArtifactId) =>
                /\ MapHas(documents, e[1])
                /\ Doc(e[1]).state = PARSED
                /\ isQueryable(documents, e[1])

\* C5 as claimed: parseDocument(id) on a PARSE_FAILED document that has its
\* file moves it to PARSING and submits the file to the collaborator.
C5_RetryAccepted ==
    [][\A docId \in DocIds :
         (/\ parseDocument(docId)
          /\ docId \in KnownIds
          /\ Doc(docId).state = PARSE_FAILED
          /\ ~Falsy(Doc(docId).file))
         => /\ MapGet(documents', docId).state = PARSING
            /\ lastCall'.fetch
            /\ BagCardinality(inflight') = BagCardinality(inflight) + 1]_vars

\* C6: parseDocument(id) on a PARSED document returns false, leaves every
\* document (state and artifact id included) and the storage as they were,
\* and submits nothing to the collaborator.  The state after the call is
\* the state before it, so the same holds for each repeated call.
C6_ParseOnParsedRefused ==
    [][\A docId \in DocIds :
         (/\ parseDocument(docId)
          /\ docId \in KnownIds
          /\ Doc(docId).state = PARSED)
         => /\ lastCall'.ret = "false"
            /\ ~lastCall'.fetch
            /\ UNCHANGED <<documents, inflight, lsDocuments>>]_vars

\* C6 witness: parseDocument has returned false for a document that is
\* PARSED with its artifact id.
C6_Witness ==
    /\ lastCall.op = "parseDocument"
    /\ lastCall.ret = "false"
    /\ lastCall.id \in KnownIds
    /\ Doc(lastCall.id).state = PARSED
    /\ Doc(lastCall.id).parsedArtifactId = lastCall.id

\* C7: parseDocument(id) on a known document without a file sets its state
\* to REQUIRES_REUPLOAD whatever the state was, writes the documents to the
\* storage, returns false, submits nothing to the collaborator, and
\* isQueryable(id) is false afterwards.
C7_ParseWithoutFile ==
    [][\A docId \in DocIds :
         (/\ parseDocument(docId)
          /\ docId \in KnownIds
          /\ Falsy(Doc(docId).file))
         => /\ MapGet(documents', docId).state = REQUIRES_REUPLOAD
            /\ lsDocuments'.kind = "json"
            /\ \E i \in DOMAIN lsDocuments'.documents :
                  /\ lsDocuments'.documents[i][1] = docId
                  /\ lsDocuments'.documents[i][2].state = REQUIRES_REUPLOAD
            /\ lastCall'.ret = "false"
            /\ ~lastCall'.fetch
            /\ inflight' = inflight
            /\ ~isQueryable(documents', docId)]_vars

\* C7 witness: parseDocument has returned false for a document without a
\* file that was PARSE_FAILED (its parseError is still there) and is now
\* REQUIRES_REUPLOAD.
C7_Witness ==
    /\ lastCall.op = "parseDocument"
    /\ lastCall.ret = "false"
    /\ lastCall.id \in KnownIds
    /\ Falsy(Doc(lastCall.id).file)
    /\ Doc(lastCall.id).state = REQUIRES_REUPLOAD
    /\ ~Falsy(Doc(lastCall.id).parseError)

\* The number of parse requests for docId awaiting the collaborator.
Awaiting(docId) ==
    BagCardinality([req \in {r \in BagToSet(inflight) : r.docId = docId} |-> inflight[req]])

\* The number of those sent since the document was last re-uploaded or
\* replaced.
AwaitingCurrent(docId) ==
    BagCardinality([req \in {r \in BagToSet(inflight) : r.docId = docId /\ ~r.superseded}
                        |-> inflight[req]])

C9_RestoredHasNoFile ==
    /\ \A docId \in restoredIds : docId \in KnownIds /\ Doc(docId).file = null
    /\ (JustReloaded => restoredIds = KnownIds)
    /\ (lastCall.op = "parseDocument" /\ lastCall.id \in restoredIds =>
            /\ ~lastCall.fetch
            /\ lastCall.ret = "false"
            /\ \A req \in BagToSet(inflight) : req.docId # lastCall.id)

\* C9 witness: parseDocument has been called on a restored document whose
\* stored state was PARSED.
C9_Witness ==
    /\ lastCall.op = "parseDocument"
    /\ lastCall.id \in restoredIds
    /\ ~Falsy(Doc(lastCall.id).parsedArtifactId)

\* C10: after a page load, every document whose stored record says PARSED
\* with a null or missing artifact id is UPLOADED in the store with a null
\* artifact id, and isQueryable is false for it.
C10_ParsedWithoutArtifactDowngraded ==
    JustReloaded =>
        \A e \in StoredRecords :
            e[2].state = PARSED /\ e[2].parsedArtifactId \in {null, undefined} =>
                /\ MapHas(documents, e[1])
                /\ Doc(e[1]).state = UPLOADED
                /\ Doc(e[1]).parsedArtifactId = null
                /\ ~isQueryable(documents, e[1])

\* C10 witness: a page load has read a record that says PARSED and has no
\* parsedArtifactId property.
C10_Witness ==
    /\ JustReloaded
    /\ \E e \in StoredRecords : e[2].state = PARSED /\ e[2].parsedArtifactId = undefined

----------------------------------------------------------------------------
(* Properties of the Session Store *)

\* The ids of the sessions in the store, and the session of an id.
KnownSessions == MapKeys(sessions)
Session(sessionId) == MapGet(sessions, sessionId)

\* No id occurs twice in the list.
NoDuplicates(ids) == \A i, j \in DOMAIN ids : ids[i] = ids[j] => i = j

C12_AddAppendsAndSelects ==
    [][\A sessionId \in SessionIds, docId \in SessionDocIds :
         /\ (/\ lastCall'.op = "addDocumentToSession"
             /\ addDocumentToSession(sessionId, docId)
             /\ sessionId \in KnownSessions
             /\ ~Includes(Session(sessionId).activeDocumentIds, docId))
            => /\ MapGet(sessions', sessionId).activeDocumentIds
                    = Session(sessionId).activeDocumentIds \o <<docId>>
               /\ MapGet(sessions', sessionId).activeDocumentId = docId
         /\ (/\ lastCall'.op = "setActiveDocument"
             /\ setActiveDocument(sessionId, docId)
             /\ sessionId \in KnownSessions)
            => IF Includes(Session(sessionId).activeDocumentIds, docId)
               THEN /\ MapGet(sessions', sessionId).activeDocumentId = docId
                    /\ MapGet(sessions', sessionId).activeDocumentIds
                            = Session(sessionId).activeDocumentIds
               ELSE MapGet(sessions', sessionId) = Session(sessionId)]_vars

\* C12 witness: setActiveDocument has run on a session with two documents
\* whose active document is now the first one added (adding selects the
\* newest, so only a selection leaves the first one active).
C12_Witness ==
    /\ lastCall.op = "setActiveDocument"
    /\ lastCall.id \in KnownSessions
    /\ Len(Session(lastCall.id).activeDocumentIds) = 2
    /\ Session(lastCall.id).activeDocumentId = Session(lastCall.id).activeDocumentIds[1]

\* C13: no session's document id list contains an id twice; and
\* addDocumentToSession with an unknown session, or with a document id the
\* session already lists, changes neither the sessions (lists and active
\* documents), nor the active session, nor the text under the sessions key.
C13_NoDuplicateDocuments ==
    [][/\ \A i \in DOMAIN sessions' : NoDuplicates(sessions'[i][2].activeDocumentIds)
       /\ \A sessionId \in SessionIds, docId \in SessionDocIds :
            (/\ lastCall'.op = "addDocumentToSession"
             /\ addDocumentToSession(sessionId, docId)
             /\ \/ sessionId \notin KnownSessions
                \/ Includes(Session(sessionId).activeDocumentIds, docId))
            => UNCHANGED <<sessions, activeSessionId, lsSessions>>]_vars

\* C13 witness: addDocumentToSession has run, at a later time than the
\* last write of the sessions key, on a session that lists every document
\* id the operation is called with: the id it was given was present.
C13_Witness ==
    /\ lastCall.op = "addDocumentToSession"
    /\ lastCall.id \in KnownSessions
    /\ \A docId \in SessionDocIds : Includes(Session(lastCall.id).activeDocumentIds, docId)
    /\ lsSessions.timestamp < now

----------------------------------------------------------------------------
(* Properties of identifiers *)

\* C14 as claimed: addDocument(file) returns an id that no document of the
\* store had; the store gains exactly one document, UPLOADED and holding
\* the file; and every document the store had is unchanged.
C14_AddDocumentFreshId ==
    [][\A file \in Files :
         addDocument(file) =>
            /\ lastCall'.ret \notin KnownIds
            /\ Len(documents') = Len(documents) + 1
            /\ MapGet(documents', lastCall'.ret).state = UPLOADED
            /\ MapGet(documents', lastCall'.ret).file = file
            /\ \A docId \in KnownIds :
                  MapHas(documents', docId) /\ MapGet(documents', docId) = Doc(docId)]_vars

\* C15 as claimed: createSession builds a session that is ACTIVE, with an
\* empty document list and no active document, makes it the active
\* session, and leaves every session the store had as it was.
C15_CreateSessionFrame ==
    [][createSession(DefaultName) =>
            /\ MapGet(sessions', activeSessionId').state = ACTIVE
            /\ MapGet(sessions', activeSessionId').activeDocumentIds = <<>>
            /\ MapGet(sessions', activeSessionId').activeDocumentId = null
            /\ activeSessionId' = lastCall'.ret
            /\ \A sessionId \in KnownSessions :
                  MapGet(sessions', sessionId) = Session(sessionId)]_vars

\* "No active document": null, or no such property.
ActiveDocumentOf(session) ==
    IF session.activeDocumentId = undefined THEN null ELSE session.activeDocumentId

\* C16 as claimed: a page load (restore into a new store from what the
\* store persisted) gives, for every session of the store, a session with
\* the same name, state, createdAt, document id list and active document,
\* and the same active session id.
C16_SessionRoundTrip ==
    [][reload =>
            /\ MapKeys(sessions') = KnownSessions
            /\ activeSessionId' = activeSessionId
            /\ \A sessionId \in KnownSessions :
                  /\ MapGet(sessions', sessionId).name = Session(sessionId).name
                  /\ MapGet(sessions', sessionId).state = Session(sessionId).state
                  /\ MapGet(sessions', sessionId).createdAt = Session(sessionId).createdAt
                  /\ MapGet(sessions', sessionId).activeDocumentIds
                        = Session(sessionId).activeDocumentIds
                  /\ ActiveDocumentOf(MapGet(sessions', sessionId))
                        = ActiveDocumentOf(Session(sessionId))]_vars

----------------------------------------------------------------------------
(* Properties of the persistence codec *)

\* C17: for every document of the store that is not PARSING and not PARSED
\* without an artifact id, loadDocuments applied to what saveDocuments
\* writes returns a record under the same id with the same docId, state,
\* metadata (name, size, type, uploadedAt), artifact id and parseError.
C17_DocumentCodecRoundTrip ==
    LET loaded == loadDocuments(saveDocuments(documents))
    IN  \A docId \in KnownIds :
            (/\ Doc(docId).state # PARSING
             /\ ~(Doc(docId).state = PARSED /\ Falsy(Doc(docId).parsedArtifactId)))
            => /\ MapHas(loaded, docId)
               /\ MapGet(loaded, docId).docId = Doc(docId).docId
               /\ MapGet(loaded, docId).state = Doc(docId).state
               /\ MapGet(loaded, docId).metadata.name = Doc(docId).metadata.name
               /\ MapGet(loaded, docId).metadata.size = Doc(docId).metadata.size
               /\ MapGet(loaded, docId).metadata.type = Doc(docId).metadata.type
               /\ MapGet(loaded, docId).metadata.uploadedAt = Doc(docId).metadata.uploadedAt
               /\ MapGet(loaded, docId).parsedArtifactId = Doc(docId).parsedArtifactId
               /\ MapGet(loaded, docId).parseError = Doc(docId).parseError

\* C17 witness: the store holds a PARSE_FAILED document with its error
\* message and a PARSED document with its artifact id.
C17_Witness ==
    /\ \E docId \in KnownIds :
            Doc(docId).state = PARSE_FAILED /\ ~Falsy(Doc(docId).parseError)
    /\ \E docId \in KnownIds :
            Doc(docId).state = PARSED /\ ~Falsy(Doc(docId).parsedArtifactId)

----------------------------------------------------------------------------
(* Properties of the Chat Store *)

\* a is a prefix of b.
IsPrefix(a, b) == Len(a) <= Len(b) /\ SubSeq(b, 1, Len(a)) = a

\* C18: a page load (restore into a new store from what the store
\* persisted) gives the same session ids and, for every session id, the
\* same messages (id, role, content, evidence, createdAt) in the same order.
C18_ChatRoundTrip ==
    [][reload =>
            /\ MapKeys(sessionMessages') = MapKeys(sessionMessages)
            /\ \A sessionId \in ChatSessionIds :
                  getMessages(sessionMessages', sessionId)
                        = getMessages(sessionMessages, sessionId)]_vars

\* C18 witness: a page load has restored a log of two messages, one of
\* them with evidence.
C18_Witness ==
    /\ lastCall.op = "reload"
    /\ \E sessionId \in MapKeys(sessionMessages) :
            /\ Len(LogOf(sessionMessages, sessionId)) >= 2
            /\ \E i \in DOMAIN LogOf(sessionMessages, sessionId) :
                    LogOf(sessionMessages, sessionId)[i].evidence # null

\* C19: at every step, for every session id, the log before the step is a
\* prefix of the log after it, and the log is exactly the messages
\* addMessage built for that session, in call order; addMessage with a
\* falsy session id returns null and changes neither the logs nor the text
\* under the messages key.
C19_AppendOnly ==
    [][/\ \A sessionId \in ChatSessionIds :
            /\ IsPrefix(getMessages(sessionMessages, sessionId),
                        getMessages(sessionMessages', sessionId))
            /\ getMessages(sessionMessages', sessionId)
                    = getMessages(addedMessages', sessionId)
       /\ \A sessionId \in ChatSessionIds, args \in MessageArgs :
            (addMessage(sessionId, args[1], args[2], args[3]) /\ Falsy(sessionId))
            => /\ lastCall'.ret = null
               /\ UNCHANGED <<sessionMessages, lsMessages>>]_vars

\* C19 witness: addMessage has appended a second, different message to the
\* log of a session.
C19_Witness ==
    /\ lastCall.op = "addMessage"
    /\ ~Falsy(lastCall.id)
    /\ Len(LogOf(sessionMessages, lastCall.id)) = 2
    /\ LogOf(sessionMessages, lastCall.id)[1].content
            # LogOf(sessionMessages, lastCall.id)[2].content

\* C20 as claimed: whatever a caller does to the array getMessages
\* returned (push, pop, reverse) or to a message object in it, getMessages
\* returns afterwards, for every session id, what it returned before.
C20_ReturnedValueIsACopy ==
    [][(callerPush \/ callerPop \/ callerReverse
            \/ \E i \in 1..(MaxMessages + 1) : callerWrite(i))
        => \A sessionId \in ChatSessionIds :
                getMessages(sessionMessages', sessionId)
                    = getMessages(sessionMessages, sessionId)]_vars

\* C21: the text under the messages key never holds the send-in-progress
\* flag (its properties are version, sessionMessages and timestamp, and
\* those of a message are id, role, content, evidence and createdAt); and
\* the flag is false in the Chat Store that a page load has constructed and
\* restored.
C21_SendingFlagIsTransient ==
    /\ DOMAIN lsMessages = {"kind", "version", "isArray", "sessionMessages", "timestamp"}
    /\ \A i \in DOMAIN lsMessages.sessionMessages :
            /\ Len(lsMessages.sessionMessages[i]) = 2
            /\ \A j \in DOMAIN lsMessages.sessionMessages[i][2] :
                    DOMAIN lsMessages.sessionMessages[i][2][j]
                        = {"id", "role", "content", "evidence", "createdAt"}
    /\ (JustReloaded => isSending = FALSE)

\* C21 witness: addMessage has written the messages key while the flag
\* is true.
C21_Witness ==
    /\ isSending = TRUE
    /\ lastCall.op = "addMessage"
    /\ ~Falsy(lastCall.id)
    /\ lsMessages.kind = "json"
    /\ lsMessages.timestamp = now

----------------------------------------------------------------------------
(* Properties of loading and clearing *)

\* The key holds no data, text that is not JSON, or a snapshot of an older
\* version.
HoldsNoData(item) == item.kind \in {"absent", "garbage"} \/ item.version < STORAGE_VERSION

\* The key holds a snapshot of an older version.
IsOutdated(item) == item.kind = "json" /\ item.version < STORAGE_VERSION

\* C22: at a page load, for each family (sessions, documents, messages):
\* when the key holds no data, text that is not valid JSON or a snapshot of
\* an older version, load returns null (the new store of that family stays
\* empty); when the snapshot is of an older version the key is removed, and
\* in every other case the key is left as it was, whatever the other keys
\* hold; the configuration key is never touched.
C22_LoadNullAndStaleRemoval ==
    [][(lastCall'.op = "reload" /\ reload) =>
            /\ (HoldsNoData(lsSessions) => sessions' = <<>> /\ activeSessionId' = null)
            /\ (HoldsNoData(lsDocuments) => documents' = <<>>)
            /\ (HoldsNoData(lsMessages) => sessionMessages' = <<>>)
            /\ lsSessions' = (IF IsOutdated(lsSessions) THEN AbsentSessionsItem ELSE lsSessions)
            /\ lsDocuments' = (IF IsOutdated(lsDocuments) THEN AbsentItem ELSE lsDocuments)
            /\ lsMessages' = (IF IsOutdated(lsMessages) THEN AbsentMessagesItem ELSE lsMessages)
            /\ lsConfig' = lsConfig]_vars

\* C22 witness: a page load has removed the outdated snapshot of the
\* sessions (it logged so for that family alone) while the documents key
\* holds text that is not JSON and the messages key holds a snapshot of
\* the current version.
C22_Witness ==
    /\ lastCall.op = "reload"
    /\ lastCall.id = "s"
    /\ lsSessions = AbsentSessionsItem
    /\ lsDocuments = GarbageItem
    /\ lsMessages.kind = "json"
    /\ lsConfig.kind = "json"

\* The well-formed entries of a stored array: arrays [id, value] that pass
\* the validation of their family (the messages have none: an id).
WellFormedSessionEntries(item) ==
    {e \in {item.sessions[i] : i \in DOMAIN item.sessions} :
        IsArrayEntry(e) /\ ~InvalidSessionEntry(e)}

WellFormedDocumentEntries(item) ==
    {e \in {item.documents[i] : i \in DOMAIN item.documents} :
        IsArrayEntry(e) /\ ~InvalidDocEntry(e)}

WellFormedMessagesEntries(item) ==
    {e \in {item.sessionMessages[i] : i \in DOMAIN item.sessionMessages} :
        IsArrayEntry(e) /\ ~Falsy(e[1])}

\* The key holds a snapshot of the current version with an array of entries.
IsCurrentSnapshot(item) ==
    item.kind = "json" /\ item.version >= STORAGE_VERSION /\ item.isArray

\* C23 as claimed: at a page load, for each family whose key holds a
\* snapshot of the current version, the store of that family holds exactly
\* the well-formed entries of the snapshot: the malformed ones are
\* discarded and the well-formed ones are all there.
C23_MalformedEntriesDiscarded ==
    [][(lastCall'.op = "reload" /\ reload) =>
            /\ (IsCurrentSnapshot(lsSessions) =>
                    MapKeys(sessions') = {e[1] : e \in WellFormedSessionEntries(lsSessions)})
            /\ (IsCurrentSnapshot(lsDocuments) =>
                    MapKeys(documents') = {e[1] : e \in WellFormedDocumentEntries(lsDocuments)})
            /\ (IsCurrentSnapshot(lsMessages) =>
                    MapKeys(sessionMessages')
                        = {e[1] : e \in WellFormedMessagesEntries(lsMessages)})]_vars

\* C24 as claimed: whatever the keys hold, the three restores of a page
\* load return without throwing.
C24_RestoreNeverThrows == lastCall.op = "reload" => lastCall.ret # "TypeError"

\* C26: clearSessions, clearDocuments and clearMessages remove the key of
\* their family and leave the other two keys and the configuration key as
\* they were; clearAllData removes the three keys and the configuration
\* key.  None of them changes a store.
C26_ClearFrame ==
    [][/\ (lastCall'.op = "clearSessions" /\ clearSessions) =>
            /\ lsSessions' = AbsentSessionsItem
            /\ UNCHANGED <<lsDocuments, lsMessages, lsConfig>>
       /\ (lastCall'.op = "clearDocuments" /\ clearDocuments) =>
            /\ lsDocuments' = AbsentItem
            /\ UNCHANGED <<lsSessions, lsMessages, lsConfig>>
       /\ (lastCall'.op = "clearMessages" /\ clearMessages) =>
            /\ lsMessages' = AbsentMessagesItem
            /\ UNCHANGED <<lsSessions, lsDocuments, lsConfig>>
       /\ (lastCall'.op = "clearAllData" /\ clearAllData) =>
            /\ lsSessions' = AbsentSessionsItem
            /\ lsDocuments' = AbsentItem
            /\ lsMessages' = AbsentMessagesItem
            /\ lsConfig' = AbsentConfigItem
       /\ (lastCall'.op \in {"clearSessions", "clearDocuments", "clearMessages", "clearAllData"}
            => UNCHANGED <<sessions, activeSessionId, documents, sessionMessages>>)]_vars

\* C26 witness: clearDocuments has removed the documents key while the
\* sessions, messages and configuration keys hold data.
C26_Witness ==
    /\ lastCall.op = "clearDocuments"
    /\ lsDocuments = AbsentItem
    /\ lsSessions.kind = "json"
    /\ lsMessages.kind = "json"
    /\ lsConfig.kind = "json"

----------------------------------------------------------------------------
(* Properties of the persisted documents, of refusals and of transitions *)

\* C27: in every reachable state, every record of the documents key has
\* exactly the properties docId, state, metadata, parsedArtifactId and
\* parseError, and its metadata exactly name, size, type and uploadedAt:
\* neither the file nor the requiresReupload flag is ever written.
C27_PersistedRecordIsCanonical ==
    lsDocuments.kind = "json" =>
        \A i \in DOMAIN lsDocuments.documents :
            /\ DOMAIN lsDocuments.documents[i][2]
                    = {"docId", "state", "metadata", "parsedArtifactId", "parseError"}
            /\ DOMAIN lsDocuments.documents[i][2].metadata
                    = {"name", "size", "type", "uploadedAt"}

\* C27 witness: a document that holds its file in memory, and went
\* through a parse, has its record in the documents key.
C27_Witness ==
    /\ lsDocuments.kind = "json"
    /\ \E docId \in KnownIds :
          /\ ~Falsy(Doc(docId).file)
          /\ Doc(docId).state = PARSED
          /\ \E i \in DOMAIN lsDocuments.documents :
                /\ lsDocuments.documents[i][1] = docId
                /\ lsDocuments.documents[i][2].state = PARSED

\* The refusals of the void operations of the SessionStore leave the
\* sessions, the active session and the sessions key as they were.
SessionRefusalsChangeNothing ==
    /\ \A sessionId \in SessionIds :
          (/\ lastCall'.op = "setActiveSession"
           /\ setActiveSession(sessionId)
           /\ ~MapHas(sessions, sessionId))
          => UNCHANGED <<sessions, activeSessionId, lsSessions>>
    /\ \A sessionId \in SessionIds, docId \in SessionDocIds :
          (/\ lastCall'.op = "addDocumentToSession"
           /\ addDocumentToSession(sessionId, docId)
           /\ \/ ~MapHas(sessions, sessionId)
              \/ Includes(MapGet(sessions, sessionId).activeDocumentIds, docId))
          => UNCHANGED <<sessions, activeSessionId, lsSessions>>
    /\ \A sessionId \in SessionIds, docId \in SessionDocIds :
          (/\ lastCall'.op = "setActiveDocument"
           /\ setActiveDocument(sessionId, docId)
           /\ \/ ~MapHas(sessions, sessionId)
              \/ ~Includes(MapGet(sessions, sessionId).activeDocumentIds, docId))
          => UNCHANGED <<sessions, activeSessionId, lsSessions>>

\* C28 as claimed: whenever parseDocument or reuploadDocument returns
\* false, or addMessage returns null, or a void session operation refuses,
\* the store and its key are as they were before the call.
C28_FalseMeansNothingHappened ==
    [][/\ (lastCall'.op \in {"parseDocument", "reuploadDocument"} /\ lastCall'.ret = "false"
            => UNCHANGED <<documents, lsDocuments>>)
       /\ (lastCall'.op = "addMessage" /\ lastCall'.ret = null
            => UNCHANGED <<sessionMessages, lsMessages>>)
       /\ SessionRefusalsChangeNothing]_vars

\* The map docs is the map of the documents with the state of docId set
\* to state, and its error message to message when that is PARSE_FAILED.
OnlyStateChanged(docs, docId, state) ==
    /\ MapHas(documents, docId)
    /\ docs = MapSet(documents, docId, [MapGet(documents, docId) EXCEPT !.state = state])

\* C28, amended: false from reuploadDocument, null from addMessage and a
\* refusal of a void session operation mean that the store and its key
\* are as they were.  False from parseDocument means that, or that the
\* document had no file and is now REQUIRES_REUPLOAD, in memory and in
\* the documents key, with nothing else changed; false from the parse
\* that was started means that the collaborator failed and, unless the
\* document was replaced meanwhile, its state is now PARSE_FAILED.
C28_FalseMeansRefusedOrSignalled ==
    [][/\ (lastCall'.op = "reuploadDocument" /\ lastCall'.ret = "false"
            => UNCHANGED <<documents, lsDocuments, inflight>>)
       /\ (lastCall'.op = "parseDocument" /\ lastCall'.ret = "false"
            => /\ inflight' = inflight
               /\ \/ UNCHANGED <<documents, lsDocuments>>
                  \/ /\ MapHas(documents, lastCall'.id)
                     /\ Falsy(MapGet(documents, lastCall'.id).file)
                     /\ OnlyStateChanged(documents', lastCall'.id, REQUIRES_REUPLOAD)
                     /\ lsDocuments' = saveDocuments(documents'))
       /\ (lastCall'.op = "parseSettle" /\ lastCall'.ret = "false"
            => \/ documents' = documents
               \/ /\ MapGet(documents', lastCall'.id).state = PARSE_FAILED
                  /\ \A docId \in KnownIds \ {lastCall'.id} :
                        MapGet(documents', docId) = Doc(docId))
       /\ (lastCall'.op = "addMessage" /\ lastCall'.ret = null
            => UNCHANGED <<sessionMessages, lsMessages>>)
       /\ SessionRefusalsChangeNothing]_vars

\* C28 witness: parseDocument has returned false for a document without
\* its file that had failed to parse: the call has made it
\* REQUIRES_REUPLOAD, and the documents key says so.
C28_Witness ==
    /\ lastCall.op = "parseDocument"
    /\ lastCall.ret = "false"
    /\ lastCall.id \in KnownIds
    /\ Falsy(Doc(lastCall.id).file)
    /\ Doc(lastCall.id).state = REQUIRES_REUPLOAD
    /\ ~Falsy(Doc(lastCall.id).parseError)
    /\ lsDocuments.kind = "json"
    /\ \E i \in DOMAIN lsDocuments.documents :
          /\ lsDocuments.documents[i][1] = lastCall.id
          /\ lsDocuments.documents[i][2].state = REQUIRES_REUPLOAD

\* C29 as claimed: in every reachable state, a document whose parseError
\* is not null is in state PARSE_FAILED.
C29_ErrorOnlyWhenFailed ==
    \A docId \in KnownIds : Doc(docId).parseError # null => Doc(docId).state = PARSE_FAILED

\* The changes of state that the state machine of a document lists.
ListedTransition(old, new, op, hadFile) ==
    \/ old = UPLOADED /\ new = PARSING
    \/ old = PARSING /\ new \in {PARSED, PARSE_FAILED}
    \/ old = PARSE_FAILED /\ new = PARSING
    \/ new = REQUIRES_REUPLOAD /\ op = "parseDocument" /\ ~hadFile
    \/ old = REQUIRES_REUPLOAD /\ new = UPLOADED /\ op = "reuploadDocument"

\* C30 as claimed: between two page loads, every change of the state of a
\* document is one of the listed transitions, and a document that
\* addDocument puts in the map is UPLOADED.
C30_OnlyListedTransitions ==
    [][lastCall'.op # "reload" =>
        \A docId \in MapKeys(documents') :
            IF docId \in KnownIds /\ ~(lastCall'.op = "addDocument" /\ lastCall'.id = docId)
            THEN \/ MapGet(documents', docId).state = Doc(docId).state
                 \/ ListedTransition(Doc(docId).state, MapGet(documents', docId).state,
                                     lastCall'.op, ~Falsy(Doc(docId).file))
            ELSE MapGet(documents', docId).state = UPLOADED]_vars

----------------------------------------------------------------------------
(* Properties of the answers of the collaborators *)

\* C33: when reuploadDocument was called for a document while its parse
\* was awaiting the collaborator, and the document is UPLOADED when the
\* answer of that parse arrives, the answer is still written: the state
\* becomes PARSED with the artifact id of the answer, or PARSE_FAILED
\* with the error message, and the documents are persisted so.
C33_StaleAnswerOverwrites ==
    [][\A req \in BagToSet(inflight), outcome \in ParseOutcomes :
         (/\ lastCall'.op = "parseSettle"
          /\ parseSettle(req, outcome)
          /\ req.live /\ req.superseded
          /\ Doc(req.docId).state = UPLOADED)
         => /\ IF outcome = "ok"
               THEN /\ MapGet(documents', req.docId).state = PARSED
                    /\ MapGet(documents', req.docId).parsedArtifactId = req.documentId
               ELSE /\ MapGet(documents', req.docId).state = PARSE_FAILED
                    /\ MapGet(documents', req.docId).parseError = ErrorMessage(outcome)
            /\ lsDocuments' = saveDocuments(documents')]_vars

\* C33 witness: the answer of a parse has just been written onto a
\* document that was UPLOADED (re-uploaded since the request was sent),
\* and the document is now PARSED with the artifact id of the answer.
C33_Witness ==
    /\ lastCall.op = "parseSettle"
    /\ overwritten = UPLOADED
    /\ lastCall.id \in KnownIds
    /\ Doc(lastCall.id).state = PARSED
    /\ Doc(lastCall.id).parsedArtifactId = lastCall.id
    /\ ~Falsy(Doc(lastCall.id).file)

\* C32: parseDocument and reuploadDocument with an id that is not in the
\* store return false, change no document, write nothing to the storage
\* and send nothing to the collaborator; setActiveSession with an id that
\* is not in the store leaves the active session, the sessions and the
\* sessions key as they were.
C32_UnknownIdIsNoOp ==
    [][/\ \A docId \in DocIds \ KnownIds :
            (lastCall'.op = "parseDocument" /\ parseDocument(docId))
            => /\ lastCall'.ret = "false"
               /\ ~lastCall'.fetch
               /\ UNCHANGED <<documents, lsDocuments, inflight>>
       /\ \A docId \in DocIds \ KnownIds, file \in Files :
            (lastCall'.op = "reuploadDocument" /\ reuploadDocument(docId, file))
            => /\ lastCall'.ret = "false"
               /\ ~lastCall'.fetch
               /\ UNCHANGED <<documents, lsDocuments, inflight>>
       /\ \A sessionId \in SessionIds \ KnownSessions :
            (lastCall'.op = "setActiveSession" /\ setActiveSession(sessionId))
            => UNCHANGED <<activeSessionId, sessions, lsSessions>>]_vars

\* C32 witness: setActiveSession has been called with an id that is not in
\* the store while another session is the active one, in a store that
\* also holds a document whose parse is awaiting the collaborator.
C32_Witness ==
    /\ lastCall.op = "setActiveSession"
    /\ lastCall.id \notin KnownSessions
    /\ activeSessionId \in KnownSessions
    /\ documents # <<>>
    /\ inflight # EmptyBag

\* C34: the answer of the collaborator ends the parse it belongs to.  The
\* call leaves the calls awaiting and sends nothing more; on a success
\* answer the document has the artifact id of the answer and state
\* PARSED, and the call resolves to true; on an error response, with or
\* without a JSON body, and on a network error, the document is
\* PARSE_FAILED with a parseError that is not null, and the call resolves
\* to false (it never rejects).  A call whose document object was replaced
\* in the map changes no document of the store.
C34_AnswerEndsTheParse ==
    [][\A req \in BagToSet(inflight), outcome \in ParseResponses :
         (lastCall'.op = "parseSettle" /\ parseSettle(req, outcome))
         => /\ inflight' = inflight (-) SetToBag({req})
            /\ ~lastCall'.fetch
            /\ lastCall'.ret = (IF outcome = "ok" THEN "true" ELSE "false")
            /\ IF ~req.live THEN documents' = documents
               ELSE IF outcome = "ok"
               THEN /\ MapGet(documents', req.docId).state = PARSED
                    /\ MapGet(documents', req.docId).parsedArtifactId = req.documentId
               ELSE /\ MapGet(documents', req.docId).state = PARSE_FAILED
                    /\ ~Falsy(MapGet(documents', req.docId).parseError)]_vars

\* C34 witness: a parse has just ended on a network error: the call has
\* resolved to false, the document is PARSE_FAILED with fetch's message,
\* and no call is awaiting the collaborator.
C34_Witness ==
    /\ lastCall.op = "parseSettle"
    /\ lastCall.ret = "false"
    /\ overwritten = PARSING
    /\ Doc(lastCall.id).state = PARSE_FAILED
    /\ Doc(lastCall.id).parseError = ErrorMessage("network")
    /\ inflight = EmptyBag

\* C35 as claimed: between two handlers, for every document of the store,
\* the documents key holds a record with the state, the artifact id and
\* the parseError the document has in memory.
C35_PersistedEqualsMemory ==
    \A docId \in KnownIds :
        \E record \in StoredRecords :
            /\ record[1] = docId
            /\ record[2].state = Doc(docId).state
            /\ record[2].parsedArtifactId = Doc(docId).parsedArtifactId
            /\ record[2].parseError = Doc(docId).parseError

\* C36: parseDocument called on a document that holds its file and is
\* PARSING (a first call is awaiting the collaborator, with no re-upload
\* since) returns false, sends nothing, and leaves the documents, the
\* storage and the calls awaiting as they were: one request for the
\* document has reached the collaborator, before the call and after it.
C36_SecondParseRefused ==
    [][\A docId \in DocIds :
         (/\ lastCall'.op = "parseDocument"
          /\ parseDocument(docId)
          /\ docId \in KnownIds
          /\ ~Falsy(Doc(docId).file)
          /\ Doc(docId).state = PARSING)
         => /\ lastCall'.ret = "false"
            /\ ~lastCall'.fetch
            /\ UNCHANGED <<documents, inflight, lsDocuments>>
            /\ AwaitingCurrent(docId) = 1]_vars

\* C36 witness: parseDocument has returned false for a document that is
\* PARSING with its file, while the one request of the first call is
\* awaiting the collaborator.
C36_Witness ==
    /\ lastCall.op = "parseDocument"
    /\ lastCall.ret = "false"
    /\ ~lastCall.fetch
    /\ lastCall.id \in KnownIds
    /\ Doc(lastCall.id).state = PARSING
    /\ ~Falsy(Doc(lastCall.id).file)
    /\ Awaiting(lastCall.id) = 1

C40_ActiveSessionExists == activeSessionId = null \/ activeSessionId \in KnownSessions

\* The id of the active document of the active session, null when there
\* is no active session or the session names no document.
ActiveDocumentId ==
    IF activeSessionId \in KnownSessions /\ ~Falsy(Session(activeSessionId).activeDocumentId)
    THEN Session(activeSessionId).activeDocumentId
    ELSE null

\* C31: a question is sent to the analysis collaborator, and a user
\* message is appended to a chat log, only by askQuestion and only when
\* the active document of the active session satisfies isQueryable at
\* that moment; the request is about that document.  When there is no
\* active document, or it does not satisfy isQueryable, askQuestion sends
\* nothing and changes nothing of the stores or of the storage.
C31_OnlyQueryableIsAsked ==
    [][/\ (\/ BagCardinality(analysis') > BagCardinality(analysis)
           \/ CountQuestions(sessionMessages') > CountQuestions(sessionMessages))
          => /\ lastCall'.op = "askQuestion"
             /\ lastCall'.fetch
             /\ isQueryable(documents, ActiveDocumentId)
             /\ \E question \in Questions \ {""} :
                    analysis' = analysis
                        (+) SetToBag({Analysis(activeSessionId, ActiveDocumentId, question)})
       /\ (lastCall'.op = "askQuestion" /\ ~isQueryable(documents, ActiveDocumentId))
          => /\ ~lastCall'.fetch
             /\ UNCHANGED <<now, documents, inflight, lsDocuments, quotaExceeded,
                            restoredIds, sessionVars, chatVars, configVars, pageVars>>]_vars

\* C31 witness: askQuestion has just sent a question about the active
\* document of the active session, which is PARSED and has an artifact
\* id, and the user message is the last of the log of that session.
C31_Witness ==
    /\ lastCall.op = "askQuestion"
    /\ lastCall.fetch
    /\ lastCall.id = activeSessionId
    /\ ActiveDocumentId \in KnownIds
    /\ Doc(ActiveDocumentId).state = PARSED
    /\ Doc(ActiveDocumentId).parsedArtifactId # null
    /\ \E question \in Questions :
           BagIn(Analysis(activeSessionId, ActiveDocumentId, question), analysis)
    /\ LET log == getMessages(sessionMessages, activeSessionId)
       IN  log # <<>> /\ log[Len(log)].role = "user"

\* C37: at most one analysis request is awaiting the collaborator, and
\* the send flag is true exactly while one is.  askQuestion sets the flag
\* when it sends a question; while the flag is true askQuestion sends
\* nothing and changes nothing, whatever the question and the active
\* document; the settling of the request, with an answer or with an
\* error, sets the flag to false and leaves no request awaiting.
C37_OneAnalysisAtATime ==
    /\ [](/\ BagCardinality(analysis) <= 1
          /\ isSending <=> analysis # EmptyBag)
    /\ [][/\ (lastCall'.op = "askQuestion" /\ isSending)
             => /\ ~lastCall'.fetch
                /\ UNCHANGED <<now, documents, inflight, lsDocuments, quotaExceeded,
                               restoredIds, sessionVars, chatVars, configVars, pageVars>>
          /\ (lastCall'.op = "askQuestion" /\ lastCall'.fetch)
             => (~isSending /\ isSending' /\ BagCardinality(analysis') = 1)
          /\ \A req \in BagToSet(analysis), outcome \in AnalysisOutcomes :
               (lastCall'.op = "analysisSettle" /\ analysisSettle(req, outcome))
               => (isSending /\ ~isSending' /\ analysis' = EmptyBag)]_vars

\* C37 witness: askQuestion has just been ignored because the send flag
\* is true: the active document can be asked about, and the one request
\* sent before is still awaiting the collaborator.
C37_Witness ==
    /\ lastCall.op = "askQuestion"
    /\ ~lastCall.fetch
    /\ isSending
    /\ canAskQuestions
    /\ BagCardinality(analysis) = 1
    /\ CountQuestions(sessionMessages) = 1

\* The log of a session: its messages, in order.
Log(entries, sessionId) == getMessages(entries, sessionId)

\* The roles of a log alternate user, assistant, starting with user.
Alternates(log) ==
    \A i \in DOMAIN log : log[i].role = (IF i % 2 = 1 THEN "user" ELSE "assistant")

\* C38: a question that passes the gate appends exactly one user message,
\* to the log of the session active at that moment, and no other log
\* changes.  The settling of its analysis call appends exactly one
\* assistant message (the answer, or an 'Analysis failed' text) to the log
\* of that same session, right after the user message with the question,
\* whichever session and document are active by then, and no other log
\* changes.  Every log alternates user, assistant.
C38_AnswerFollowsItsQuestion ==
    /\ [](\A sessionId \in SessionIds : Alternates(Log(sessionMessages, sessionId)))
    /\ [][/\ (lastCall'.op = "askQuestion" /\ lastCall'.fetch)
             => LET log == Log(sessionMessages, activeSessionId)
                    after == Log(sessionMessages', activeSessionId)
                IN  /\ Len(after) = Len(log) + 1
                    /\ SubSeq(after, 1, Len(log)) = log
                    /\ after[Len(after)].role = "user"
                    /\ \E req \in BagToSet(analysis') :
                           /\ req.sessionId = activeSessionId
                           /\ req.question = after[Len(after)].content
                    /\ \A other \in SessionIds \ {activeSessionId} :
                           Log(sessionMessages', other) = Log(sessionMessages, other)
          /\ \A req \in BagToSet(analysis), outcome \in AnalysisOutcomes :
               (lastCall'.op = "analysisSettle" /\ analysisSettle(req, outcome))
               => LET log == Log(sessionMessages, req.sessionId)
                      after == Log(sessionMessages', req.sessionId)
                  IN  /\ log # <<>>
                      /\ log[Len(log)].role = "user"
                      /\ log[Len(log)].content = req.question
                      /\ Len(after) = Len(log) + 1
                      /\ SubSeq(after, 1, Len(log)) = log
                      /\ after[Len(after)].role = "assistant"
                      /\ after[Len(after)].content = AssistantContent(outcome)
                      /\ \A other \in SessionIds \ {req.sessionId} :
                             Log(sessionMessages', other) = Log(sessionMessages, other)]_vars

\* C38 witness: the analysis call of a question asked in one session has
\* just settled while another session is the active one; the log of the
\* first session ends with the question and its assistant message, and
\* the log of the active session is empty.
C38_Witness ==
    /\ lastCall.op = "analysisSettle"
    /\ lastCall.id \in KnownSessions
    /\ activeSessionId \in KnownSessions
    /\ lastCall.id # activeSessionId
    /\ LET log == Log(sessionMessages, lastCall.id)
       IN  /\ Len(log) = 2
           /\ log[1].role = "user"
           /\ log[2].role = "assistant"
    /\ Log(sessionMessages, activeSessionId) = <<>>


====
